---- MODULE Spec2Model ----
(***************************************************************************)
(* A model of the voting core of the Electronic-Voting-System repository:  *)
(* the token engine (app/models/voting_token.py, app/services/             *)
(* token_service.py), the ballot store (app/models/vote.py,                *)
(* app/services/vote_service.py), the electors (app/models/voter.py), the  *)
(* audit chain (app/models/audit_log.py) and the hybrid cipher             *)
(* (app/utils/shamir_crypto.py).                                           *)
(*                                                                         *)
(* The store is MongoDB: every single find / insert / update is one atomic *)
(* step; a request handler is a sequence of such steps and handlers of     *)
(* parallel workers interleave between them.  Hashes and ciphertexts are   *)
(* symbolic terms (an injective hash, a perfect cipher).                   *)
(***************************************************************************)
EXTENDS Integers, Sequences, FiniteSets, TLC

(***************************************************************************)
(* Bounds of the model.                                                    *)
(***************************************************************************)
NumWorkers == 2      \* parallel request handlers
MaxRequests == 4     \* requests started along one behaviour
MaxReceiptIds == 2   \* size of the space secrets.token_hex(6) draws from
MaxNow == 2          \* the clock runs from 0 to MaxNow (milliseconds)
MsPerSecond == 2     \* clock ticks per second of the scaled clock
MaxLogs == 3         \* audit entries appended along one behaviour
MaxSeqRequests == 3  \* requests started along one behaviour of the sequential services
MaxKeyPairs == 2     \* hybrid key pairs in existence
MaxDraws == 2        \* values each random draw of encrypt_vote may take

VARIABLES
    now,            \* datetime.utcnow(), in ticks
    voters,         \* collection voters: voter_id -> document
    voting_tokens,  \* collection voting_tokens: token_id -> document
    votes,          \* collection votes, in insertion (natural) order
    w,              \* the request each worker is handling, with its locals
    started,        \* number of requests started so far
    consumed,       \* ghost: successful mark_ballot_used calls, <<token, kind>> -> count
    cast_by,        \* ghost: for each record of votes, the elector whose request stored it
    succeeded,      \* ghost: the issues and casts that returned success: elector, token, operation
    tampered,       \* ghost: the one change made to a stored ballot record behind the code
    audit_logs,     \* collection audit_logs, in insertion (natural) order
    aw,             \* the AuditLog.log call each worker is inside, with its locals
    chain,          \* what the last AuditLog.verify_chain() returned
    aghost,         \* ghost: overlap of log calls, the one change made behind the code
    crypto,         \* one encrypt_vote / decrypt_vote experiment on the hybrid cipher
    calc            \* one call of a function of the tally or of the secret sharing

coreVars == <<now, voters, voting_tokens, votes, w, started, consumed, cast_by, succeeded>>
auditVars == <<audit_logs, aw, chain, aghost>>
\* what no step of a voting request touches
nonCore == <<tampered, auditVars, crypto, calc>>
vars == <<coreVars, nonCore>>

Workers == 1..NumWorkers

Range(s) == {s[i] : i \in DOMAIN s}

(***************************************************************************)
(* Identifiers.  The code's identifiers are prefixed random strings        *)
(* (VTR-..., RCP-..., 64 hex characters for a token); here <<prefix, n>>.  *)
(***************************************************************************)
NoId == <<"NONE", 0>>
VoterId(n) == <<"VTR", n>>
TokenId(n) == <<"TKN", n>>
ReceiptId(n) == <<"RCP", n>>
VoterIds == {VoterId(1), VoterId(2)}
ReceiptIds == {ReceiptId(n) : n \in 1..MaxReceiptIds}
ElectionId == <<"ELC", 1>>

\* Election.VALID_CONSTITUENCIES, and the constituency each elector registered with
ConstituencyOf(v) == "Kathmandu"

\* The election document of the store (candidates with their constituency, parties).
TheElection ==
    [election_id |-> ElectionId,
     candidates |-> {[candidate_id |-> <<"CND", 1>>, constituency |-> "Kathmandu"],
                     [candidate_id |-> <<"CND", 2>>, constituency |-> "Lalitpur"]},
     parties |-> {[party_id |-> <<"PTY", 1>>]},
     start_date |-> 0,
     end_date |-> MaxNow - 1,
     is_active |-> TRUE,
     public_key |-> [rsa |-> <<"pk_rsa", 1>>, kyber |-> <<"pk_kyber", 1>>]]

CandidateIds == {c.candidate_id : c \in TheElection.candidates}
PartyIds == {p.party_id : p \in TheElection.parties}

\* Election.is_ongoing, Election.has_ended
is_ongoing(e, t) == e.is_active /\ e.start_date <= t /\ t <= e.end_date
has_ended(e, t) == t > e.end_date

\* Election.get_candidate: the candidate with this id, or none
get_candidate(e, cid) == {c \in e.candidates : c.candidate_id = cid}
\* Election.get_party
get_party(e, pid) == {p \in e.parties : p.party_id = pid}

(***************************************************************************)
(* The hybrid cipher, app/utils/shamir_crypto.py, over symbolic terms.     *)
(* A byte string drawn from the CSPRNG is a set of atoms and XOR is the    *)
(* symmetric difference (the free GF(2) space over the random draws).      *)
(* RSA-OAEP and AES-GCM decryption under a wrong key raise; ML-KEM         *)
(* decapsulation under a wrong key returns the implicit-rejection secret.  *)
(***************************************************************************)
NoKey == <<"NONE", 0>>
Failed == [ok |-> FALSE]
Ok(x) == [ok |-> TRUE, value |-> x]

Xor(a, b) == (a \ b) \cup (b \ a)

\* PKCS1_OAEP.new(pk, SHA256).encrypt(m) and .decrypt(c)
RsaEncrypt(pk, m) == [scheme |-> "rsa_oaep", key |-> pk[2], msg |-> m]
RsaDecrypt(sk, c) ==
    IF sk # NoKey /\ sk[1] = "sk_rsa" /\ sk[2] = c.key THEN Ok(c.msg) ELSE Failed

\* ML_KEM_768.encaps(pk) with the draw ss, and ML_KEM_768.decaps(sk, ct)
KyberEncaps(pk, ss) == [scheme |-> "ml_kem", key |-> pk[2], secret |-> ss]
KyberDecaps(sk, ct) ==
    IF sk[2] = ct.key THEN ct.secret ELSE {<<"reject", sk[2], ct.key>>}

\* AES.new(key, MODE_GCM).encrypt_and_digest / decrypt_and_verify
AesGcmEncrypt(key, data) == [scheme |-> "aes_gcm", key |-> key, data |-> data]
AesGcmDecrypt(key, c) == IF key = c.key THEN Ok(c.data) ELSE Failed

\* ElectionCrypto.encrypt_vote; aes_key and kyber_shared_secret are the draws
encrypt_vote(vote_data, public_keys, aes_key, kyber_shared_secret) ==
    [encrypted_key_rsa |-> RsaEncrypt(public_keys.rsa, aes_key),
     kyber_ciphertext |-> KyberEncaps(public_keys.kyber, kyber_shared_secret),
     kyber_protected_key |-> Xor(aes_key, kyber_shared_secret),
     ciphertext |-> AesGcmEncrypt(aes_key, vote_data),
     algorithm |-> "hybrid-rsa2048-kyber768"]

\* ElectionCrypto._decrypt_vote_hybrid
decrypt_vote_hybrid(pkg, rsa_private_key, kyber_private_key) ==
    LET aes_key_from_rsa == RsaDecrypt(rsa_private_key, pkg.encrypted_key_rsa)
        aes_key_from_kyber ==
            Xor(pkg.kyber_protected_key, KyberDecaps(kyber_private_key, pkg.kyber_ciphertext))
    IN  IF ~aes_key_from_rsa.ok THEN Failed
        ELSE IF aes_key_from_rsa.value # aes_key_from_kyber THEN Failed
        ELSE AesGcmDecrypt(aes_key_from_rsa.value, pkg.ciphertext)

\* ElectionCrypto._decrypt_vote_legacy
decrypt_vote_legacy(pkg, private_key) ==
    LET aes_key == RsaDecrypt(private_key, pkg.encrypted_key_rsa)
    IN  IF ~aes_key.ok THEN Failed ELSE AesGcmDecrypt(aes_key.value, pkg.ciphertext)

\* ElectionCrypto.decrypt_vote
decrypt_vote(pkg, private_key, kyber_private_key) ==
    IF "kyber_ciphertext" \in DOMAIN pkg /\ kyber_private_key # NoKey
    THEN decrypt_vote_hybrid(pkg, private_key, kyber_private_key)
    ELSE decrypt_vote_legacy(pkg, private_key)

(***************************************************************************)
(* Documents of the store.                                                 *)
(***************************************************************************)
BallotTypes == {"fptp", "pr"}   \* VotingToken.BALLOT_TYPES
NoTime == -1

\* Voter.create followed by Voter.to_dict: an elector registered at time t
VoterDoc(v, t) ==
    [voter_id |-> v,
     citizenship_number_hash |-> <<"sha256", v[2]>>,
     password_hash |-> <<"bcrypt", v[2]>>,
     full_name |-> <<"name", v[2]>>,
     constituency |-> ConstituencyOf(v),
     registered_at |-> t,
     elections_voted |-> <<>>,
     token_issued_for |-> <<>>]

\* VotingToken.__init__ and to_dict of a new token
TokenDoc(token_id, election_id, constituency, t) ==
    [token_id |-> token_id,
     election_id |-> election_id,
     constituency |-> constituency,
     ballots_allowed |-> <<"fptp", "pr">>,
     ballots_used |-> <<>>,
     is_fully_used |-> FALSE,
     created_at |-> t,
     used_at |-> NoTime]

\* datetime.strftime('%Y-%m-%d %H:%M:%S'): the time cut to whole seconds
strftime(t) == <<"Y-m-d H:M:S", t \div MsPerSecond>>

\* the sha256 of Vote.generate_receipt and Vote.verify_receipt
receipt_sha256(receipt_id, election_id, timestamp_str) ==
    <<"sha256", receipt_id, election_id, timestamp_str>>

\* Vote.generate_receipt, receipt_id being the random draw
generate_receipt(receipt_id, election_id, timestamp) ==
    [receipt_id |-> receipt_id,
     receipt_hash |-> receipt_sha256(receipt_id, election_id, strftime(timestamp)),
     timestamp_str |-> strftime(timestamp)]

NoReceipt == [receipt_id |-> NoId, receipt_hash |-> <<"sha256">>, timestamp_str |-> <<"none">>]

\* Vote.to_dict of the record built by Vote.cast_fptp_vote / Vote.cast_pr_vote;
\* n numbers the random draws of this encryption
VoteDoc(election_id, ballot_type, choice, constituency, token_id, receipt, timestamp, n) ==
    [election_id |-> election_id,
     ballot_type |-> ballot_type,
     encrypted_vote |->
        encrypt_vote(IF ballot_type = "fptp"
                        THEN [ballot_type |-> "fptp", candidate_id |-> choice,
                              constituency |-> constituency]
                        ELSE [ballot_type |-> "pr", party_id |-> choice],
                     TheElection.public_key, {<<"aes_key", n>>}, {<<"kyber_ss", n>>}),
     constituency |-> IF ballot_type = "fptp" THEN constituency ELSE "None",
     timestamp |-> timestamp,
     token_id |-> token_id,
     receipt_id |-> receipt.receipt_id,
     receipt_hash |-> receipt.receipt_hash,
     timestamp_str |-> receipt.timestamp_str,
     verification_count |-> 0,
     verification_history |-> <<>>,
     last_verified_at |-> NoTime]    \* absent until the first verification

(***************************************************************************)
(* The token engine: app/models/voting_token.py.                           *)
(***************************************************************************)
\* VotingToken.is_valid_for_ballot
is_valid_for_ballot(token, ballot_type) ==
    /\ ~token.is_fully_used
    /\ ballot_type \in Range(token.ballots_allowed)
    /\ ballot_type \notin Range(token.ballots_used)

\* VotingToken.mark_ballot_used: will_be_fully_used, from the worker's copy
will_be_fully_used(token) == Len(token.ballots_used) + 1 >= Len(token.ballots_allowed)

\* a filter that does not ask whether the kind is used already
mark_filter_any_kind(doc, ballot_type) == doc.is_fully_used = FALSE

\* VotingToken.mark_ballot_used: the filter of the update_one
mark_filter(doc, ballot_type) ==
    /\ ballot_type \notin Range(doc.ballots_used)
    /\ doc.is_fully_used = FALSE

\* an update that leaves the document as it is
mark_update_nothing(doc, ballot_type, fully, t) == doc

\* an update that writes the list of used kinds instead of pushing onto it
mark_update_overwrite(doc, ballot_type, fully, t) ==
    [doc EXCEPT !.ballots_used = <<ballot_type>>,
                !.is_fully_used = IF fully THEN TRUE ELSE @,
                !.used_at = IF fully THEN t ELSE @]

\* VotingToken.mark_ballot_used: the update of the update_one
mark_update(doc, ballot_type, fully, t) ==
    [doc EXCEPT !.ballots_used = Append(@, ballot_type),
                !.is_fully_used = IF fully THEN TRUE ELSE @,
                !.used_at = IF fully THEN t ELSE @]

(***************************************************************************)
(* Requests.  A worker holds the arguments and the locals of the request   *)
(* it is handling; the voter it works on is the copy loaded when the       *)
(* request started (flask-login's user loader), the token the copy         *)
(* returned by VotingToken.find_by_token_id.                               *)
(***************************************************************************)
NoToken == TokenDoc(NoId, NoId, "None", NoTime)

IdleW ==
    [op |-> "idle", pc |-> "idle",
     voter |-> NoId, token_id |-> NoId, candidate_id |-> NoId, party_id |-> NoId,
     ballot_type |-> "none",
     elections_voted |-> <<>>, token_issued_for |-> <<>>, constituency |-> "None",
     ltoken |-> NoToken, receipt |-> NoReceipt, timestamp |-> NoTime,
     result |-> "none", detail |-> "none", ballots |-> {},
     seen |-> 0,    \* ghost: records stored when verify_receipt read the store
     later |-> FALSE]  \* ghost: started after a successful cast of its elector or token

\* ghost: an issue_token of this elector has returned success; a
\* cast_dual_ballot_with_token of this elector, or with this token, has
IssuedBefore(v) == \E s \in succeeded : s.op = "issue" /\ s.voter = v
VotedBefore(v) == \E s \in succeeded : s.op = "cast" /\ s.voter = v
UsedBefore(token_id) == \E s \in succeeded : s.op = "cast" /\ s.token_id = token_id

\* a worker takes a request only when every worker before it is busy
CanStart(i) ==
    /\ w[i].op = "idle"
    /\ \A j \in Workers : j < i => w[j].op # "idle"
    /\ started < MaxRequests

\* the request's own copy of the voter
LoadVoter(rec, v) ==
    [rec EXCEPT !.voter = v,
                !.elections_voted = voters[v].elections_voted,
                !.token_issued_for = voters[v].token_issued_for,
                !.constituency = voters[v].constituency]

Finish(rec, result, detail) == [rec EXCEPT !.pc = "done", !.result = result, !.detail = detail]

\* a voter whose lists are never looked at
never_voted_in(rec, election_id) == FALSE
never_token_for(rec, election_id) == FALSE

\* Voter.has_voted_in, Voter.has_token_for on the request's copy
has_voted_in(rec, election_id) == election_id \in Range(rec.elections_voted)
has_token_for(rec, election_id) == election_id \in Range(rec.token_issued_for)

\* the election checks that open issue_token and both casts
ElectionCheck(e, t) ==
    IF is_ongoing(e, t) THEN "ok"
    ELSE IF has_ended(e, t) THEN "This election has ended"
    ELSE "This election has not started yet"

(***************************************************************************)
(* TokenService.issue_token                                                *)
(***************************************************************************)
StartIssue(i, v) ==
    /\ CanStart(i)
    /\ w' = [w EXCEPT ![i] = LoadVoter([IdleW EXCEPT !.op = "issue", !.pc = "i_check",
                                                     !.later = IssuedBefore(v)], v)]
    /\ started' = started + 1
    /\ UNCHANGED <<nonCore, succeeded, now, voters, voting_tokens, votes, consumed, cast_by>>

\* lines 27-44: the checks, on the request's copy of the voter
IssueCheckResult(me, t) ==
    IF ElectionCheck(TheElection, t) # "ok" THEN ElectionCheck(TheElection, t)
    ELSE IF has_voted_in(me, ElectionId) THEN "You have already voted in this election"
    ELSE IF has_token_for(me, ElectionId)
        THEN "A voting token has already been issued for this election"
    ELSE "ok"

IssueCheck(i) ==
    /\ w[i].pc = "i_check"
    /\ LET r == IssueCheckResult(w[i], now)
       IN  w' = [w EXCEPT ![i] = IF r = "ok" THEN [@ EXCEPT !.pc = "i_create"]
                                 ELSE Finish(@, r, "none")]
    /\ UNCHANGED <<nonCore, succeeded, now, voters, voting_tokens, votes, started, consumed, cast_by>>

\* VotingToken.create: a token id no stored token has, and the insert
IssueCreate(i) ==
    /\ w[i].pc = "i_create"
    /\ LET tid == TokenId(Cardinality(DOMAIN voting_tokens) + 1)
       IN  /\ voting_tokens' =
                voting_tokens @@ (tid :> TokenDoc(tid, ElectionId, w[i].constituency, now))
           /\ consumed' = consumed @@ [p \in {tid} \X BallotTypes |-> 0]
           /\ w' = [w EXCEPT ![i] = [@ EXCEPT !.pc = "i_mark", !.token_id = tid]]
    /\ UNCHANGED <<nonCore, succeeded, now, voters, votes, started, cast_by>>

\* the $addToSet of Voter.mark_token_issued
AddToSet(seq, x) == IF x \in Range(seq) THEN seq ELSE Append(seq, x)

\* Voter.mark_token_issued, then the return of issue_token
IssueMark(i) ==
    /\ w[i].pc = "i_mark"
    /\ voters' = IF has_token_for(w[i], ElectionId) THEN voters
                 ELSE [voters EXCEPT ![w[i].voter].token_issued_for = AddToSet(@, ElectionId)]
    /\ w' = [w EXCEPT ![i] = Finish([@ EXCEPT !.token_issued_for = AddToSet(@, ElectionId)],
                                    "ok", "none")]
    /\ succeeded' = succeeded \cup {[voter |-> w[i].voter, token_id |-> w[i].token_id,
                                       op |-> w[i].op]}
    /\ UNCHANGED <<nonCore, now, voting_tokens, votes, started, consumed, cast_by>>

(***************************************************************************)
(* TokenService.use_token_for_ballot, called by a worker of its own or by  *)
(* cast_dual_ballot_with_token                                             *)
(***************************************************************************)
StartUse(i, token_id, ballot_type) ==
    /\ CanStart(i)
    /\ w' = [w EXCEPT ![i] = [IdleW EXCEPT !.op = "use", !.pc = "u_find",
                                           !.token_id = token_id,
                                           !.ballot_type = ballot_type,
                                           !.later = UsedBefore(token_id)]]
    /\ started' = started + 1
    /\ UNCHANGED <<nonCore, succeeded, now, voters, voting_tokens, votes, consumed, cast_by>>

\* lines 108-119: find_by_token_id and the checks on the copy it returns
UseFindResult(tokens, token_id, ballot_type) ==
    IF ballot_type \notin BallotTypes THEN "Invalid ballot type"
    ELSE IF token_id \notin DOMAIN tokens THEN "Invalid voting token"
    ELSE IF tokens[token_id].is_fully_used
        THEN "This voting token has already been fully used"
    ELSE IF ~is_valid_for_ballot(tokens[token_id], ballot_type)
        THEN "Token has already been used for ballot"
    ELSE "ok"

\* what the caller of use_token_for_ballot does with (success, msg)
UseReturn(me, success, msg) ==
    IF me.op = "use" THEN Finish(me, IF success THEN "ok" ELSE msg, "none")
    ELSE IF ~success
        THEN Finish(me, IF me.ballot_type = "fptp" THEN "FPTP ballot failed"
                                                   ELSE "PR ballot failed", msg)
    ELSE [me EXCEPT !.pc = IF me.ballot_type = "fptp" THEN "c_store_fptp" ELSE "c_store_pr"]

UseFind(i) ==
    /\ w[i].pc = "u_find"
    /\ LET r == UseFindResult(voting_tokens, w[i].token_id, w[i].ballot_type)
       IN  w' = [w EXCEPT ![i] =
                    IF r = "ok" THEN [@ EXCEPT !.pc = "u_mark",
                                               !.ltoken = voting_tokens[w[i].token_id]]
                    ELSE UseReturn(@, FALSE, r)]
    /\ UNCHANGED <<nonCore, succeeded, now, voters, voting_tokens, votes, started, consumed, cast_by>>

\* VotingToken.mark_ballot_used: the update_one and its modified_count
UseMark(i) ==
    /\ w[i].pc = "u_mark"
    /\ LET me == w[i]
           doc == voting_tokens[me.token_id]
           fully == will_be_fully_used(me.ltoken)
       IN  IF mark_filter(doc, me.ballot_type)
           THEN /\ voting_tokens' =
                     [voting_tokens EXCEPT ![me.token_id] =
                         mark_update(doc, me.ballot_type, fully, now)]
                /\ consumed' = [consumed EXCEPT ![<<me.token_id, me.ballot_type>>] = @ + 1]
                /\ w' = [w EXCEPT ![i] =
                           UseReturn([@ EXCEPT !.ltoken =
                                         mark_update(me.ltoken, me.ballot_type, fully, now)],
                                     TRUE, "ok")]
           ELSE /\ w' = [w EXCEPT ![i] =
                           UseReturn(@, FALSE,
                                     "Failed to use token - it may have already been used")]
                /\ UNCHANGED <<voting_tokens, consumed>>
    /\ UNCHANGED <<nonCore, succeeded, now, voters, votes, started, cast_by>>

(***************************************************************************)
(* VoteService.cast_dual_ballot_with_token                                 *)
(***************************************************************************)
StartCast(i, v, token_id, candidate_id, party_id) ==
    /\ CanStart(i)
    /\ w' = [w EXCEPT ![i] = LoadVoter([IdleW EXCEPT !.op = "cast", !.pc = "c_validate",
                                                     !.token_id = token_id,
                                                     !.candidate_id = candidate_id,
                                                     !.party_id = party_id,
                                                     !.later = VotedBefore(v)], v)]
    /\ started' = started + 1
    /\ UNCHANGED <<nonCore, succeeded, now, voters, voting_tokens, votes, consumed, cast_by>>

\* TokenService.validate_token without a ballot type
validate_token(tokens, token_id, election_id) ==
    IF token_id = NoId THEN "Token is required"
    ELSE IF token_id \notin DOMAIN tokens THEN "Invalid voting token"
    ELSE IF tokens[token_id].election_id # election_id
        THEN "Token is not valid for this election"
    ELSE IF tokens[token_id].is_fully_used THEN "This voting token has already been used"
    ELSE "ok"

\* TokenService.validate_token_constituency
validate_token_constituency(tokens, token_id, constituency) ==
    IF token_id \notin DOMAIN tokens THEN "Invalid voting token"
    ELSE IF tokens[token_id].constituency # constituency
        THEN "Token constituency does not match"
    ELSE "ok"

\* the checks without the one of the candidate's constituency
ChoiceCheckAnyConstituency(e, candidate_id, party_id, constituency) ==
    IF get_candidate(e, candidate_id) = {} THEN "Invalid candidate selection"
    ELSE IF get_party(e, party_id) = {} THEN "Invalid party selection"
    ELSE "ok"

\* the candidate and party checks shared by both casts
ChoiceCheck(e, candidate_id, party_id, constituency) ==
    IF get_candidate(e, candidate_id) = {} THEN "Invalid candidate selection"
    ELSE IF \E c \in get_candidate(e, candidate_id) : c.constituency # constituency
        THEN "You can only vote for candidates in your constituency"
    ELSE IF get_party(e, party_id) = {} THEN "Invalid party selection"
    ELSE "ok"

\* lines 107-149: every check made before the first write.  The token is read
\* twice there (validate_token, validate_token_constituency); the second read is
\* of a field no operation changes, so both reads are one step.
CastCheckResult(me, tokens, t) ==
    IF ElectionCheck(TheElection, t) # "ok" THEN ElectionCheck(TheElection, t)
    ELSE IF has_voted_in(me, ElectionId) THEN "You have already voted in this election"
    ELSE IF validate_token(tokens, me.token_id, ElectionId) # "ok"
        THEN validate_token(tokens, me.token_id, ElectionId)
    ELSE IF validate_token_constituency(tokens, me.token_id, me.constituency) # "ok"
        THEN validate_token_constituency(tokens, me.token_id, me.constituency)
    ELSE ChoiceCheck(TheElection, me.candidate_id, me.party_id, me.constituency)

\* the checks, then lines 153-154: the shared receipt of both ballots
CastValidate(i) ==
    /\ w[i].pc = "c_validate"
    /\ LET r == CastCheckResult(w[i], voting_tokens, now)
       IN  IF r # "ok"
           THEN w' = [w EXCEPT ![i] = Finish(@, r, "none")]
           ELSE \E rid \in ReceiptIds :
                    w' = [w EXCEPT ![i] =
                             [@ EXCEPT !.pc = "u_find", !.ballot_type = "fptp",
                                       !.timestamp = now,
                                       !.receipt = generate_receipt(rid, ElectionId, now)]]
    /\ UNCHANGED <<nonCore, succeeded, now, voters, voting_tokens, votes, started, consumed, cast_by>>

\* Vote.cast_fptp_vote with the shared receipt (lines 162-172)
CastStoreFptp(i) ==
    /\ w[i].pc = "c_store_fptp"
    /\ votes' = Append(votes, VoteDoc(ElectionId, "fptp", w[i].candidate_id,
                                      w[i].constituency, w[i].token_id, w[i].receipt,
                                      w[i].timestamp, Len(votes) + 1))
    /\ cast_by' = Append(cast_by, w[i].voter)
    /\ w' = [w EXCEPT ![i] = [@ EXCEPT !.pc = "u_find", !.ballot_type = "pr"]]
    /\ UNCHANGED <<nonCore, succeeded, now, voters, voting_tokens, started, consumed>>

\* Vote.cast_pr_vote with the shared receipt (lines 180-189)
CastStorePr(i) ==
    /\ w[i].pc = "c_store_pr"
    /\ votes' = Append(votes, VoteDoc(ElectionId, "pr", w[i].party_id,
                                      w[i].constituency, w[i].token_id, w[i].receipt,
                                      w[i].timestamp, Len(votes) + 1))
    /\ cast_by' = Append(cast_by, w[i].voter)
    /\ w' = [w EXCEPT ![i] = [@ EXCEPT !.pc = "mark_voted"]]
    /\ UNCHANGED <<nonCore, succeeded, now, voters, voting_tokens, started, consumed>>

\* Voter.mark_voted (a $push), then the successful return of the cast
MarkVoted(i) ==
    /\ w[i].pc = "mark_voted"
    /\ voters' = IF has_voted_in(w[i], ElectionId) THEN voters
                 ELSE [voters EXCEPT ![w[i].voter].elections_voted = Append(@, ElectionId)]
    /\ w' = [w EXCEPT ![i] =
                Finish([@ EXCEPT !.elections_voted = AddToSet(@, ElectionId)], "ok", "none")]
    /\ succeeded' = succeeded \cup {[voter |-> w[i].voter, token_id |-> w[i].token_id,
                                       op |-> w[i].op]}
    /\ UNCHANGED <<nonCore, now, voting_tokens, votes, started, consumed, cast_by>>

(***************************************************************************)
(* VoteService.cast_dual_ballot, the cast that takes no token              *)
(***************************************************************************)
StartCastLegacy(i, v, candidate_id, party_id) ==
    /\ CanStart(i)
    /\ w' = [w EXCEPT ![i] = LoadVoter([IdleW EXCEPT !.op = "cast_dual_ballot",
                                                     !.pc = "l_check",
                                                     !.candidate_id = candidate_id,
                                                     !.party_id = party_id,
                                                     !.later = VotedBefore(v)], v)]
    /\ started' = started + 1
    /\ UNCHANGED <<nonCore, succeeded, now, voters, voting_tokens, votes, consumed, cast_by>>

\* lines 29-60
LegacyCheckResult(me, t) ==
    IF ElectionCheck(TheElection, t) # "ok" THEN ElectionCheck(TheElection, t)
    ELSE IF has_voted_in(me, ElectionId) THEN "You have already voted in this election"
    ELSE ChoiceCheck(TheElection, me.candidate_id, me.party_id, me.constituency)

LegacyCheck(i) ==
    /\ w[i].pc = "l_check"
    /\ LET r == LegacyCheckResult(w[i], now)
       IN  w' = [w EXCEPT ![i] = IF r = "ok" THEN [@ EXCEPT !.pc = "l_store_fptp"]
                                 ELSE Finish(@, r, "none")]
    /\ UNCHANGED <<nonCore, succeeded, now, voters, voting_tokens, votes, started, consumed, cast_by>>

\* Vote.cast_fptp_vote / cast_pr_vote without token and receipt: Vote.__init__ draws
\* a token id of its own (generate_vote_token) and the vote mints its own receipt
LegacyStore(i, ballot_type, next_pc) ==
    \E rid \in ReceiptIds :
        /\ votes' = Append(votes,
                VoteDoc(ElectionId, ballot_type,
                        IF ballot_type = "fptp" THEN w[i].candidate_id ELSE w[i].party_id,
                        w[i].constituency, <<"RND", Len(votes) + 1>>,
                        generate_receipt(rid, ElectionId, now), now, Len(votes) + 1))
        /\ cast_by' = Append(cast_by, w[i].voter)
        /\ w' = [w EXCEPT ![i] = [@ EXCEPT !.pc = next_pc]]
        /\ UNCHANGED <<nonCore, succeeded, now, voters, voting_tokens, started, consumed>>

LegacyStoreFptp(i) == w[i].pc = "l_store_fptp" /\ LegacyStore(i, "fptp", "l_store_pr")
LegacyStorePr(i) == w[i].pc = "l_store_pr" /\ LegacyStore(i, "pr", "mark_voted")

(***************************************************************************)
(* Vote.verify_receipt                                                     *)
(***************************************************************************)
\* Vote.find_by_receipt_id: the matching records, in the store's order
find_by_receipt_id(vs, receipt_id) == SelectSeq(vs, LAMBDA v : v.receipt_id = receipt_id)

\* a recomputation that leaves the election out of the hash
expected_hash_no_election(vote) == <<"sha256", vote.receipt_id, vote.timestamp_str>>

\* lines 341-347: the hash recomputed from the fields of a stored record
expected_hash(vote) ==
    IF vote.timestamp_str # NoReceipt.timestamp_str
    THEN receipt_sha256(vote.receipt_id, vote.election_id, vote.timestamp_str)
    ELSE receipt_sha256(vote.receipt_id, vote.election_id, strftime(vote.timestamp))

\* the record whose hash verify_receipt checks (line 338)
primary_vote(found) == found[1]

\* lines 329-358: what verify_receipt answers before it logs the verification
verify_receipt(vs, receipt_id) ==
    LET found == find_by_receipt_id(vs, receipt_id)
    IN  IF found = <<>>
        THEN [valid |-> FALSE, message |-> "Receipt not found. Please check your receipt ID.", ballots |-> {}]
        ELSE IF expected_hash(primary_vote(found)) # primary_vote(found).receipt_hash
        THEN [valid |-> FALSE, message |-> "Receipt integrity check failed.", ballots |-> {}]
        ELSE [valid |-> TRUE, message |-> "Your votes were successfully recorded.",
              ballots |-> {found[k].ballot_type : k \in DOMAIN found}]

StartVerify(i, receipt_id) ==
    /\ CanStart(i)
    /\ w' = [w EXCEPT ![i] = [IdleW EXCEPT !.op = "verify", !.pc = "v_find",
                                           !.receipt = [NoReceipt EXCEPT
                                                           !.receipt_id = receipt_id]]]
    /\ started' = started + 1
    /\ UNCHANGED <<nonCore, succeeded, now, voters, voting_tokens, votes, consumed, cast_by>>

VerifyFind(i) ==
    /\ w[i].pc = "v_find"
    /\ LET r == verify_receipt(votes, w[i].receipt.receipt_id)
       IN  w' = [w EXCEPT ![i] =
                    IF r.valid THEN [@ EXCEPT !.pc = "v_log", !.ballots = r.ballots,
                                              !.seen = Len(votes)]
                    ELSE Finish([@ EXCEPT !.seen = Len(votes)], r.message, "none")]
    /\ UNCHANGED <<nonCore, succeeded, now, voters, voting_tokens, votes, started, consumed, cast_by>>

\* an update_many that counts the verification twice
log_verification_twice(vote, receipt_id, t) ==
    IF vote.receipt_id = receipt_id
    THEN [vote EXCEPT !.verification_history = Append(@, t),
                      !.last_verified_at = t,
                      !.verification_count = @ + 2]
    ELSE vote

\* lines 361-379: the update_many on every record with this receipt_id
log_verification(vote, receipt_id, t) ==
    IF vote.receipt_id = receipt_id
    THEN [vote EXCEPT !.verification_history = Append(@, t),
                      !.last_verified_at = t,
                      !.verification_count = @ + 1]
    ELSE vote

VerifyLog(i) ==
    /\ w[i].pc = "v_log"
    /\ votes' = [k \in DOMAIN votes |-> log_verification(votes[k], w[i].receipt.receipt_id, now)]
    /\ w' = [w EXCEPT ![i] = Finish(@, "Your votes were successfully recorded.", "none")]
    /\ UNCHANGED <<nonCore, succeeded, now, voters, voting_tokens, started, consumed, cast_by>>

(***************************************************************************)
(* The end of a request, the clock, and the specification of the core.     *)
(***************************************************************************)
Return(i) ==
    /\ w[i].pc = "done"
    /\ w' = [w EXCEPT ![i] = IdleW]
    /\ UNCHANGED <<nonCore, succeeded, now, voters, voting_tokens, votes, started, consumed, cast_by>>

Tick ==
    /\ now < MaxNow
    /\ now' = now + 1
    /\ UNCHANGED <<nonCore, succeeded, voters, voting_tokens, votes, w, started, consumed, cast_by>>

(***************************************************************************)
(* The audit chain: app/models/audit_log.py, app/services/audit_service.py *)
(***************************************************************************)
GENESIS_HASH == <<"GENESIS">>
NoHash == <<"None">>

\* the details dict of an event; a key the event does not set is NoId
Details(election_id, ballot_type) == [election_id |-> election_id, ballot_type |-> ballot_type]

\* AuditService.log_vote_cast: the arguments it hands to AuditLog.log
log_vote_cast(voter_id, election_id, ballot_type) ==
    [category |-> "vote", event_type |-> "vote_cast",
     message |-> <<ballot_type, "ballot cast in election">>,
     user_id |-> voter_id, user_type |-> "voter",
     ip_address |-> "remote_addr", user_agent |-> "User-Agent",
     details |-> Details(election_id, <<ballot_type, 0>>)]

\* AuditService.log_token_issued
log_token_issued(voter_id, election_id) ==
    [category |-> "vote", event_type |-> "token_issued",
     message |-> <<"Voting token issued">>,
     user_id |-> voter_id, user_type |-> "voter",
     ip_address |-> "remote_addr", user_agent |-> "User-Agent",
     details |-> Details(election_id, NoId)]

\* AuditService.log_registration of a successful registration
log_registration(user_id) ==
    [category |-> "auth", event_type |-> "register",
     message |-> <<"Voter registration successful">>,
     user_id |-> user_id, user_type |-> "voter",
     ip_address |-> "remote_addr", user_agent |-> "User-Agent",
     details |-> Details(NoId, NoId)]

\* AuditLog.__init__ and to_dict: the entry of an event, stamped with the clock
AuditEntry(ev, t) ==
    [id |-> NoId,
     category |-> ev.category, event_type |-> ev.event_type, message |-> ev.message,
     user_id |-> ev.user_id, user_type |-> ev.user_type,
     ip_address |-> ev.ip_address, user_agent |-> ev.user_agent,
     details |-> ev.details,
     timestamp |-> t,
     entry_hash |-> NoHash,
     previous_hash |-> NoHash]

\* timestamp.replace(microsecond=0).strftime(...): the time cut to whole seconds
normalized_ts(t) == <<"Y-m-dTH:M:S", t \div MsPerSecond>>

\* AuditLog._compute_hash
compute_hash(e) ==
    <<"sha256", e.category, e.event_type, e.message, e.user_id, e.user_type,
      e.ip_address, e.user_agent, e.details, normalized_ts(e.timestamp), e.previous_hash>>

\* the largest timestamp stored
MaxTimestamp(logs) ==
    CHOOSE t \in {logs[k].timestamp : k \in DOMAIN logs} :
        \A k \in DOMAIN logs : logs[k].timestamp <= t

\* AuditLog._get_latest_hash: find_one(sort timestamp descending).  Entries with the
\* same stored timestamp come in an order the store does not define, so every entry
\* with the largest timestamp is a possible answer.
get_latest_hash(logs) ==
    IF logs = <<>> THEN {GENESIS_HASH}
    ELSE {logs[k].entry_hash : k \in {j \in DOMAIN logs : logs[j].timestamp = MaxTimestamp(logs)}}

\* find().sort('timestamp', 1): the orders the store may return the entries in
SortedByTimestamp(logs) ==
    {p \in [DOMAIN logs -> DOMAIN logs] :
        /\ \A a, b \in DOMAIN logs : a # b => p[a] # p[b]
        /\ \A a, b \in DOMAIN logs : a < b => logs[p[a]].timestamp <= logs[p[b]].timestamp}

\* AuditLog.verify_chain: the loop, at entry k of the returned entries
RECURSIVE verify_from(_, _, _)
verify_from(entries, k, expected_previous_hash) ==
    IF k > Len(entries)
    THEN [valid |-> TRUE, entries_checked |-> Len(entries), first_invalid_id |-> NoId,
          error |-> "None"]
    ELSE IF entries[k].previous_hash # expected_previous_hash
    THEN [valid |-> FALSE, entries_checked |-> k, first_invalid_id |-> entries[k].id,
          error |-> "Chain break: previous_hash mismatch"]
    ELSE IF compute_hash(entries[k]) # entries[k].entry_hash
    THEN [valid |-> FALSE, entries_checked |-> k, first_invalid_id |-> entries[k].id,
          error |-> "Hash mismatch: entry was tampered with"]
    ELSE verify_from(entries, k + 1, entries[k].entry_hash)

\* AuditLog.verify_chain on the entries as one sort returned them
verify_chain(entries) == verify_from(entries, 1, GENESIS_HASH)

\* every answer verify_chain() can give on the stored log
ChainResults(logs) ==
    {verify_chain([k \in DOMAIN logs |-> logs[p[k]]]) : p \in SortedByTimestamp(logs)}

\* ObjectId of the n-th inserted document
ObjectId(n) == <<"OID", n>>

\* insert_one into audit_logs; the unique index on entry_hash (app/__init__.py)
\* refuses an entry whose hash is stored already
DuplicateKey(logs, e) == \E k \in DOMAIN logs : logs[k].entry_hash = e.entry_hash
InsertEntry(logs, e) == Append(logs, [e EXCEPT !.id = ObjectId(Len(logs) + 1)])

\* AuditLog.save: previous_hash and entry_hash of the entry, given the latest hash read
Chained(e, latest) ==
    [e EXCEPT !.previous_hash = latest,
              !.entry_hash = compute_hash([e EXCEPT !.previous_hash = latest])]

IdleA == [pc |-> "idle", entry |-> AuditEntry(log_registration(NoId), NoTime), result |-> "none"]
NoTamper == [k |-> 0, id |-> NoId, field |-> "none", valid_before |-> FALSE]
NoChain ==
    [called |-> FALSE, stored |-> 0,
     result |-> [valid |-> TRUE, entries_checked |-> 0, first_invalid_id |-> NoId,
                 error |-> "None"]]

\* the events the audit workers log
AuditEvents ==
    {log_vote_cast(VoterId(1), ElectionId, "dual"), log_token_issued(VoterId(1), ElectionId)}

\* AuditLog.log, line 168: the entry is built and stamped
LogStart(i, ev) ==
    /\ aw[i].pc = "idle"
    /\ \A j \in Workers : j < i => aw[j].pc # "idle"
    /\ aghost.tamper.k = 0
    /\ Len(audit_logs) + Cardinality({j \in Workers : aw[j].pc # "idle"}) < MaxLogs
    /\ aw' = [aw EXCEPT ![i] = [pc |-> "a_latest", entry |-> AuditEntry(ev, now),
                                result |-> "none"]]
    /\ aghost' = [aghost EXCEPT !.overlap = @ \/ \E j \in Workers : aw[j].pc # "idle"]
    /\ UNCHANGED <<coreVars, tampered, crypto, calc, audit_logs, chain>>

\* AuditLog.save, lines 138-142: the read of the latest hash, and the hash
LogLatest(i) ==
    /\ aw[i].pc = "a_latest"
    /\ \E latest \in get_latest_hash(audit_logs) :
           aw' = [aw EXCEPT ![i] = [@ EXCEPT !.pc = "a_insert",
                                             !.entry = Chained(@, latest)]]
    /\ UNCHANGED <<coreVars, tampered, crypto, calc, audit_logs, chain, aghost>>

\* AuditLog.save, line 144: the insert
LogInsert(i) ==
    /\ aw[i].pc = "a_insert"
    /\ IF DuplicateKey(audit_logs, aw[i].entry)
       THEN /\ aw' = [aw EXCEPT ![i] = [IdleA EXCEPT !.result = "DuplicateKeyError"]]
            /\ UNCHANGED audit_logs
       ELSE /\ audit_logs' = InsertEntry(audit_logs, aw[i].entry)
            /\ aw' = [aw EXCEPT ![i] = [IdleA EXCEPT !.result = "ok"]]
    /\ UNCHANGED <<coreVars, tampered, crypto, calc, chain, aghost>>

\* AuditLog.verify_chain()
VerifyChain ==
    /\ \E r \in ChainResults(audit_logs) :
           chain' = [called |-> TRUE, stored |-> Len(audit_logs), result |-> r]
    /\ UNCHANGED <<coreVars, tampered, crypto, calc, audit_logs, aw, aghost>>

\* the values a change behind the code may write into a field of an entry
TamperValues(e, field) ==
    CASE field = "message" -> {<<"rewritten">>}
      [] field = "user_id" -> {VoterId(2)}
      [] field = "timestamp" -> (0..MaxNow) \ {e.timestamp}
      [] field = "previous_hash" -> {<<"forged">>, GENESIS_HASH} \ {e.previous_hash}
      [] field = "entry_hash" -> {<<"forged">>}

TamperFields == {"message", "user_id", "timestamp", "previous_hash", "entry_hash"}

\* one stored field of one entry is changed directly in the store
TamperEntry(k, field) ==
    /\ aghost.tamper.k = 0
    /\ \A j \in Workers : aw[j].pc = "idle"
    /\ k \in DOMAIN audit_logs
    /\ \E x \in TamperValues(audit_logs[k], field) :
           audit_logs' = [audit_logs EXCEPT ![k][field] = x]
    /\ aghost' = [aghost EXCEPT !.tamper =
                     [k |-> k, id |-> audit_logs[k].id, field |-> field,
                      valid_before |-> \A r \in ChainResults(audit_logs) : r.valid]]
    /\ chain' = NoChain
    /\ UNCHANGED <<coreVars, tampered, crypto, calc, aw>>

AuditInit ==
    /\ audit_logs = <<>>
    /\ aw = [i \in Workers |-> IdleA]
    /\ chain = NoChain
    /\ aghost = [overlap |-> FALSE, tamper |-> NoTamper]

\* the token ids a request may present: every issued one, and one that was not
PresentableTokens == DOMAIN voting_tokens \cup {TokenId(0)}

CoreInit ==
    /\ now = 0
    /\ voters = [v \in VoterIds |-> VoterDoc(v, 0)]
    /\ voting_tokens = <<>>
    /\ votes = <<>>
    /\ w = [i \in Workers |-> IdleW]
    /\ started = 0
    /\ consumed = <<>>
    /\ cast_by = <<>>
    /\ succeeded = {}

CoreNext ==
    \/ \E i \in Workers, v \in DOMAIN voters : StartIssue(i, v)
    \/ \E i \in Workers : IssueCheck(i)
    \/ \E i \in Workers : IssueCreate(i)
    \/ \E i \in Workers : IssueMark(i)
    \/ \E i \in Workers, t \in PresentableTokens, b \in BallotTypes : StartUse(i, t, b)
    \/ \E i \in Workers : UseFind(i)
    \/ \E i \in Workers : UseMark(i)
    \/ \E i \in Workers, v \in DOMAIN voters, t \in PresentableTokens,
          c \in CandidateIds, p \in PartyIds : StartCast(i, v, t, c, p)
    \/ \E i \in Workers : CastValidate(i)
    \/ \E i \in Workers : CastStoreFptp(i)
    \/ \E i \in Workers : CastStorePr(i)
    \/ \E i \in Workers : MarkVoted(i)
    \/ \E i \in Workers, r \in ReceiptIds : StartVerify(i, r)
    \/ \E i \in Workers : VerifyFind(i)
    \/ \E i \in Workers : VerifyLog(i)
    \/ \E i \in Workers : Return(i)

NoVoteTamper == [k |-> 0, field |-> "none", receipt_id |-> NoId]
NoCrypto ==
    [pc |-> "idle", vote_data |-> [ballot_type |-> "none"], key |-> 0,
     pkg |-> [algorithm |-> "none"], private_key |-> NoKey, kyber_private_key |-> NoKey,
     out |-> Failed]
NoCalc == [pc |-> "none"]

Init ==
    /\ CoreInit
    /\ AuditInit
    /\ tampered = NoVoteTamper
    /\ crypto = NoCrypto
    /\ calc = NoCalc

Next == CoreNext
Spec == Init /\ [][Next]_vars

(***************************************************************************)
(* Properties of the token engine and of the ballot store, under Spec.     *)
(***************************************************************************)
Count(seq, x) == Cardinality({k \in DOMAIN seq : seq[k] = x})

\* the outcomes with which use_token_for_ballot reports a slot that is taken
UsedOutcomes ==
    {"This voting token has already been fully used",
     "Token has already been used for ballot",
     "Failed to use token - it may have already been used"}

\* the workers whose use_token_for_ballot(t, k) call has returned
Returned(t, k) ==
    {i \in Workers : /\ w[i].op = "use" /\ w[i].pc = "done"
                     /\ w[i].token_id = t /\ w[i].ballot_type = k}

\* C1: of the use_token_for_ballot(t, k) calls of parallel workers exactly one
\* succeeds and every other one fails with a token-already-used outcome, whatever
\* the interleaving of their find and update steps; k is in ballots_used of t
\* exactly as often as a call succeeded, which is at most once.
C1_OneConsumer ==
    \A t \in DOMAIN voting_tokens : \A k \in BallotTypes :
        /\ consumed[<<t, k>>] <= 1
        /\ Count(voting_tokens[t].ballots_used, k) = consumed[<<t, k>>]
        /\ Cardinality({i \in Returned(t, k) : w[i].result = "ok"}) <= 1
        /\ \A i \in Returned(t, k) :
              /\ consumed[<<t, k>>] = 1
              /\ w[i].result # "ok" => w[i].result \in UsedOutcomes

\* two calls for the same slot raced: both read the token unused, one update won
C1_Witness ==
    \E t \in DOMAIN voting_tokens : \E k \in BallotTypes :
        \E i, j \in Returned(t, k) :
            /\ w[i].result = "ok"
            /\ w[j].result = "Failed to use token - it may have already been used"

\* C2: every stored token has ballots_used within ballots_allowed and is marked
\* fully used exactly when every allowed kind is used.
C2_TokenInvariant ==
    \A t \in DOMAIN voting_tokens :
        /\ Range(voting_tokens[t].ballots_used) \subseteq Range(voting_tokens[t].ballots_allowed)
        /\ voting_tokens[t].is_fully_used <=>
              Range(voting_tokens[t].ballots_allowed) \subseteq Range(voting_tokens[t].ballots_used)

\* the ballot records of one kind stored by the requests of one elector
RecordsOf(v, b) == {k \in DOMAIN votes : cast_by[k] = v /\ votes[k].ballot_type = b}

\* C3: the requests of one elector have caused at most one FPTP record and at most
\* one PR record to be stored.
C3_OneElectorTwoBallots ==
    \A v \in DOMAIN voters : \A b \in BallotTypes : Cardinality(RecordsOf(v, b)) <= 1

\* the records stored with one token
RecordsWith(t) == {k \in DOMAIN votes : votes[k].token_id = t}
ReceiptOf(vote) ==
    [receipt_id |-> vote.receipt_id, receipt_hash |-> vote.receipt_hash,
     timestamp_str |-> vote.timestamp_str]

\* C8: a successful cast_dual_ballot_with_token has stored exactly two records, one
\* FPTP and one PR, with the receipt_id, receipt_hash and timestamp_str it returned;
\* verify_receipt of that receipt_id is valid and reports both ballots, and so did
\* every verify_receipt call that read the store after the two records were there.
C8_ReceiptOnBothRecords ==
    /\ \A i \in Workers :
          (w[i].op = "cast" /\ w[i].pc = "done" /\ w[i].result = "ok") =>
              /\ Cardinality(RecordsWith(w[i].token_id)) = 2
              /\ {votes[k].ballot_type : k \in RecordsWith(w[i].token_id)} = BallotTypes
              /\ \A k \in RecordsWith(w[i].token_id) : ReceiptOf(votes[k]) = w[i].receipt
              /\ verify_receipt(votes, w[i].receipt.receipt_id).valid
              /\ verify_receipt(votes, w[i].receipt.receipt_id).ballots = BallotTypes
    /\ \A j \in Workers :
          (/\ w[j].op = "verify" /\ w[j].pc \in {"v_log", "done"}
           /\ \E t \in DOMAIN voting_tokens :
                 /\ Cardinality(RecordsWith(t)) = 2
                 /\ \A k \in RecordsWith(t) :
                       k <= w[j].seen /\ votes[k].receipt_id = w[j].receipt.receipt_id)
          => /\ w[j].ballots = BallotTypes
             /\ w[j].pc = "done" => w[j].result = "Your votes were successfully recorded."

\* a cast has just returned its receipt and a verification of it has completed
C8_Witness ==
    \E i, j \in Workers :
        /\ w[i].op = "cast" /\ w[i].pc = "done" /\ w[i].result = "ok"
        /\ w[j].op = "verify" /\ w[j].pc = "done"
        /\ w[j].receipt.receipt_id = w[i].receipt.receipt_id
        /\ w[j].seen = Len(votes)
        /\ w[j].ballots = BallotTypes

(***************************************************************************)
(* The services called one request at a time, with the clock, the cast     *)
(* that takes no token, and one change made to a stored record behind the  *)
(* code.                                                                   *)
(***************************************************************************)
Sequential == {1}

\* the values a change behind the code may write into a field of a ballot record
VoteTamperValues(vote, field) ==
    CASE field = "receipt_id" -> (ReceiptIds \cup {ReceiptId(0)}) \ {vote.receipt_id}
      [] field = "election_id" -> {<<"ELC", 2>>}
      [] field = "timestamp_str" ->
            {strftime(t) : t \in 0..(MaxNow + MsPerSecond)} \ {vote.timestamp_str}

VoteTamperFields == {"receipt_id", "election_id", "timestamp_str"}

\* one of the three receipt inputs of one stored record is changed in the store
TamperVote(k, field) ==
    /\ tampered.k = 0
    /\ \A i \in Workers : w[i].op = "idle"
    /\ k \in DOMAIN votes
    /\ \E x \in VoteTamperValues(votes[k], field) : votes' = [votes EXCEPT ![k][field] = x]
    /\ tampered' = [k |-> k, field |-> field, receipt_id |-> votes[k].receipt_id]
    /\ UNCHANGED <<auditVars, crypto, calc, now, voters, voting_tokens, w, started, consumed,
                   cast_by, succeeded>>

SeqNext ==
    \/ \E i \in Sequential, v \in DOMAIN voters : started < MaxSeqRequests /\ StartIssue(i, v)
    \/ \E i \in Sequential : IssueCheck(i)
    \/ \E i \in Sequential : IssueCreate(i)
    \/ \E i \in Sequential : IssueMark(i)
    \/ \E i \in Sequential : UseFind(i)
    \/ \E i \in Sequential : UseMark(i)
    \/ \E i \in Sequential, v \in DOMAIN voters, t \in PresentableTokens,
          c \in CandidateIds, p \in PartyIds : started < MaxSeqRequests /\ StartCast(i, v, t, c, p)
    \/ \E i \in Sequential : CastValidate(i)
    \/ \E i \in Sequential : CastStoreFptp(i)
    \/ \E i \in Sequential : CastStorePr(i)
    \/ \E i \in Sequential : MarkVoted(i)
    \/ \E i \in Sequential, v \in DOMAIN voters, c \in CandidateIds, p \in PartyIds :
          started < MaxSeqRequests /\ StartCastLegacy(i, v, c, p)
    \/ \E i \in Sequential : LegacyCheck(i)
    \/ \E i \in Sequential : LegacyStoreFptp(i)
    \/ \E i \in Sequential : LegacyStorePr(i)
    \/ \E i \in Sequential, r \in ReceiptIds : started < MaxSeqRequests /\ StartVerify(i, r)
    \/ \E i \in Sequential : VerifyFind(i)
    \/ \E i \in Sequential : VerifyLog(i)
    \/ \E i \in Sequential : Return(i)
    \/ \E k \in 1..(2 * MaxSeqRequests), f \in VoteTamperFields : TamperVote(k, f)
    \/ Tick

SpecSeq == Init /\ [][SeqNext]_vars

\* C4: every elector's elections_voted is within the elector's token_issued_for.
C4_VotedWithinIssued ==
    \A v \in DOMAIN voters :
        Range(voters[v].elections_voted) \subseteq Range(voters[v].token_issued_for)

\* C9: once receipt_id, election_id or timestamp_str of a record that matched a
\* receipt has been changed, verify_receipt of that receipt answers with the
\* integrity failure.
C9_TamperDetected ==
    \A i \in Workers :
        (/\ tampered.k # 0
         /\ w[i].op = "verify" /\ w[i].pc \in {"v_log", "done"}
         /\ w[i].receipt.receipt_id = tampered.receipt_id)
        => /\ w[i].pc = "done"
           /\ w[i].result = "Receipt integrity check failed."

(***************************************************************************)
(* The routes of an elector (app/routes/auth.py, app/routes/voter.py,      *)
(* app/routes/verify.py), one request at a time: registration, the token   *)
(* request, the cast and the verification, each followed by the audit      *)
(* entry the route writes.                                                 *)
(***************************************************************************)
\* a route that logs a token id where the election id belongs
route_event_with_token(me) == log_token_issued(me.voter, me.token_id)

\* the audit entry a route writes after its service call succeeded
route_event(me) ==
    CASE me.op = "register" -> log_registration(me.voter)
      [] me.op = "issue" -> log_token_issued(me.voter, ElectionId)
      [] me.op = "cast" -> log_vote_cast(me.voter, ElectionId, "dual")

LoggedOps == {"register", "issue", "cast"}

\* AuthService.register_voter and Voter.create: a voter id no stored voter has
Register(i, v) ==
    /\ CanStart(i)
    /\ v \notin DOMAIN voters
    /\ voters' = voters @@ (v :> VoterDoc(v, now))
    /\ w' = [w EXCEPT ![i] = Finish([IdleW EXCEPT !.op = "register", !.voter = v],
                                    "ok", "none")]
    /\ started' = started + 1
    /\ UNCHANGED <<nonCore, succeeded, now, voting_tokens, votes, consumed, cast_by>>

\* AuditLog.log called by the route: the whole call, no other request running
RouteLog(i) ==
    /\ w[i].pc = "done" /\ w[i].op \in LoggedOps /\ w[i].result = "ok"
    /\ \E latest \in get_latest_hash(audit_logs) :
           LET e == Chained(AuditEntry(route_event(w[i]), now), latest)
           IN  audit_logs' = IF DuplicateKey(audit_logs, e) THEN audit_logs
                             ELSE InsertEntry(audit_logs, e)
    /\ w' = [w EXCEPT ![i] = [@ EXCEPT !.pc = "logged"]]
    /\ UNCHANGED <<now, voters, voting_tokens, votes, started, consumed, cast_by, succeeded,
                   tampered, crypto, calc, aw, chain, aghost>>

\* the response of a route
RouteReturn(i) ==
    /\ \/ w[i].pc = "logged"
       \/ w[i].pc = "done" /\ ~(w[i].op \in LoggedOps /\ w[i].result = "ok")
    /\ w' = [w EXCEPT ![i] = IdleW]
    /\ UNCHANGED <<nonCore, succeeded, now, voters, voting_tokens, votes, started, consumed, cast_by>>

AnonInit ==
    /\ now = 0
    /\ voters = <<>>
    /\ voting_tokens = <<>>
    /\ votes = <<>>
    /\ w = [i \in Workers |-> IdleW]
    /\ started = 0
    /\ consumed = <<>>
    /\ cast_by = <<>>
    /\ succeeded = {}
    /\ AuditInit
    /\ tampered = NoVoteTamper
    /\ crypto = NoCrypto
    /\ calc = NoCalc

AnonNext ==
    \/ \E i \in Sequential, v \in VoterIds : Register(i, v)
    \/ \E i \in Sequential, v \in DOMAIN voters : StartIssue(i, v)
    \/ \E i \in Sequential : IssueCheck(i)
    \/ \E i \in Sequential : IssueCreate(i)
    \/ \E i \in Sequential : IssueMark(i)
    \/ \E i \in Sequential : UseFind(i)
    \/ \E i \in Sequential : UseMark(i)
    \/ \E i \in Sequential, v \in DOMAIN voters, t \in PresentableTokens,
          c \in CandidateIds, p \in PartyIds : StartCast(i, v, t, c, p)
    \/ \E i \in Sequential : CastValidate(i)
    \/ \E i \in Sequential : CastStoreFptp(i)
    \/ \E i \in Sequential : CastStorePr(i)
    \/ \E i \in Sequential : MarkVoted(i)
    \/ \E i \in Sequential, v \in DOMAIN voters, c \in CandidateIds, p \in PartyIds :
          StartCastLegacy(i, v, c, p)
    \/ \E i \in Sequential : LegacyCheck(i)
    \/ \E i \in Sequential : LegacyStoreFptp(i)
    \/ \E i \in Sequential : LegacyStorePr(i)
    \/ \E i \in Sequential, r \in ReceiptIds : StartVerify(i, r)
    \/ \E i \in Sequential : VerifyFind(i)
    \/ \E i \in Sequential : VerifyLog(i)
    \/ \E i \in Sequential : RouteLog(i)
    \/ \E i \in Sequential : RouteReturn(i)
    \/ Tick

SpecAnon == AnonInit /\ [][AnonNext]_vars

\* the identifiers a stored document holds, by collection
VoterMentions(d) == {d.voter_id} \cup Range(d.elections_voted) \cup Range(d.token_issued_for)
TokenMentions(d) == {d.token_id, d.election_id}
VoteMentions(d) == {d.election_id, d.token_id, d.receipt_id}
AuditMentions(d) == {d.user_id, d.details.election_id, d.details.ballot_type}

\* an elector identifier, a token identifier
IsElectorId(x) == x[1] = "VTR"
IsTokenId(x) == x[1] \in {"TKN", "RND"}

\* a document with these identifiers links an elector to a token or a ciphertext
Links(mentions, has_ciphertext) ==
    /\ \E x \in mentions : IsElectorId(x)
    /\ has_ciphertext \/ \E x \in mentions : IsTokenId(x)

\* C5: no document of voters, voting_tokens, votes or audit_logs holds both an
\* elector identifier and a token identifier or a ballot ciphertext.
C5_NoLinkingDocument ==
    /\ \A v \in DOMAIN voters : ~Links(VoterMentions(voters[v]), FALSE)
    /\ \A t \in DOMAIN voting_tokens : ~Links(TokenMentions(voting_tokens[t]), FALSE)
    /\ \A k \in DOMAIN votes :
          ~Links(VoteMentions(votes[k]), "encrypted_vote" \in DOMAIN votes[k])
    /\ \A k \in DOMAIN audit_logs : ~Links(AuditMentions(audit_logs[k]), FALSE)

\* an elector registered, took a token and cast both ballots, every route wrote its
\* audit entry, and the receipt was verified
C5_Witness ==
    /\ \E k \in DOMAIN audit_logs : audit_logs[k].event_type = "register"
    /\ \E k \in DOMAIN audit_logs : audit_logs[k].event_type = "token_issued"
    /\ \E k \in DOMAIN audit_logs :
          /\ audit_logs[k].event_type = "vote_cast"
          /\ IsElectorId(audit_logs[k].user_id)
    /\ \E k \in DOMAIN votes : votes[k].verification_count > 0
    /\ \E t \in DOMAIN voting_tokens : voting_tokens[t].is_fully_used

\* the audit chain alone: workers appending, the clock, verification, one change
\* behind the code
AuditNext ==
    \/ \E i \in Workers, ev \in AuditEvents : LogStart(i, ev)
    \/ \E i \in Workers : LogLatest(i)
    \/ \E i \in Workers : LogInsert(i)
    \/ VerifyChain
    \/ \E k \in 1..MaxLogs, f \in TamperFields : TamperEntry(k, f)
    \/ Tick

SpecAudit == Init /\ [][AuditNext]_vars

\* C6: when the entries were appended one after another and nothing was changed
\* behind the code, verify_chain() answers valid with entries_checked = the number
\* of entries stored; the first entry appended has previous_hash GENESIS, every later
\* one the entry_hash of the entry appended just before it, and every entry_hash
\* is the hash recomputed from the entry's fields.
C6_ChainOfSequentialAppends ==
    (~aghost.overlap /\ aghost.tamper.k = 0) =>
        /\ chain.called =>
              /\ chain.result.valid
              /\ chain.result.entries_checked = chain.stored
        /\ \A k \in DOMAIN audit_logs :
              /\ audit_logs[k].previous_hash =
                    IF k = 1 THEN GENESIS_HASH ELSE audit_logs[k - 1].entry_hash
              /\ audit_logs[k].entry_hash = compute_hash(audit_logs[k])

\* C7: after one stored field of entry k of a chain that verified as valid has been
\* changed, verify_chain() answers valid = false with first_invalid_id = the id of
\* entry k.
C7_TamperLocalised ==
    (aghost.tamper.k # 0 /\ aghost.tamper.valid_before /\ chain.called) =>
        /\ ~chain.result.valid
        /\ chain.result.first_invalid_id = aghost.tamper.id

(***************************************************************************)
(* The hybrid cipher alone: a ballot is encrypted to the keys of one       *)
(* election and decrypt_vote is called with some pair of private keys.     *)
(***************************************************************************)
\* generate_election_keys: the n-th hybrid key pair
PublicKeys(n) == [rsa |-> <<"pk_rsa", n>>, kyber |-> <<"pk_kyber", n>>]
RsaPrivateKey(n) == <<"sk_rsa", n>>
KyberPrivateKey(n) == <<"sk_kyber", n>>

\* the key arguments of decrypt_vote: a private key of the scheme, or None
RsaKeyArgs == {RsaPrivateKey(n) : n \in 1..MaxKeyPairs} \cup {NoKey}
KyberKeyArgs == {KyberPrivateKey(n) : n \in 1..MaxKeyPairs} \cup {NoKey}

\* the vote_data of Vote.cast_fptp_vote and Vote.cast_pr_vote
VoteData ==
    {[ballot_type |-> "fptp", candidate_id |-> c, constituency |-> "Kathmandu"] :
        c \in CandidateIds}
    \cup {[ballot_type |-> "pr", party_id |-> p] : p \in PartyIds}

CryptoInit ==
    /\ CoreInit
    /\ AuditInit
    /\ tampered = NoVoteTamper
    /\ crypto \in {[NoCrypto EXCEPT !.pc = "plain", !.vote_data = d, !.key = n] :
                      d \in VoteData, n \in 1..MaxKeyPairs}
    /\ calc = NoCalc

Encrypt ==
    /\ crypto.pc = "plain"
    /\ \E a, b \in 1..MaxDraws :
           crypto' = [crypto EXCEPT
                         !.pc = "encrypted",
                         !.pkg = encrypt_vote(crypto.vote_data, PublicKeys(crypto.key),
                                              {<<"aes_key", a>>}, {<<"kyber_ss", b>>})]
    /\ UNCHANGED <<coreVars, tampered, auditVars, calc>>

Decrypt(private_key, kyber_private_key) ==
    /\ crypto.pc = "encrypted"
    /\ crypto' = [crypto EXCEPT
                     !.pc = "decrypted",
                     !.private_key = private_key,
                     !.kyber_private_key = kyber_private_key,
                     !.out = decrypt_vote(crypto.pkg, private_key, kyber_private_key)]
    /\ UNCHANGED <<coreVars, tampered, auditVars, calc>>

CryptoNext ==
    \/ Encrypt
    \/ \E r \in RsaKeyArgs, k \in KyberKeyArgs : Decrypt(r, k)

SpecCrypto == CryptoInit /\ [][CryptoNext]_vars

\* C10: decrypt_vote returns the plaintext of a blob made by encrypt_vote only when
\* it is given the RSA private key and the Kyber private key of the election; with
\* one of them absent or replaced by another key it returns no plaintext.
C10_BothKeysNeeded ==
    crypto.pc = "decrypted" =>
        /\ crypto.out.ok => crypto.out.value = crypto.vote_data
        /\ crypto.out.ok <=>
              /\ crypto.private_key = RsaPrivateKey(crypto.key)
              /\ crypto.kyber_private_key = KyberPrivateKey(crypto.key)

(***************************************************************************)
(* Shamir's secret sharing, app/utils/shamir_crypto.py, over a small prime *)
(* field: a secret is split with a random polynomial and put together      *)
(* again from some of the shares.                                          *)
(***************************************************************************)
PRIME == 17          \* the field; the code's is 2**521 - 1
MaxSecretLen == 1    \* bytes of a secret
MaxThreshold == 3    \* threshold of a sharing
MaxTotalShares == 4  \* shares of a sharing

Bytes == 0..255
ByteStrings == UNION {[1..l -> Bytes] : l \in 0..MaxSecretLen}

\* int.from_bytes(b, byteorder='big')
RECURSIVE from_bytes(_)
from_bytes(b) ==
    IF b = <<>> THEN 0
    ELSE 256 * from_bytes(SubSeq(b, 1, Len(b) - 1)) + b[Len(b)]

RECURSIVE Power(_, _)
Power(b, e) == IF e = 0 THEN 1 ELSE b * Power(b, e - 1)

\* n.to_bytes(length, byteorder='big'); OverflowError when n does not fit
RECURSIVE big_endian(_, _)
big_endian(n, length) ==
    IF length = 0 THEN <<>>
    ELSE Append(big_endian(n \div 256, length - 1), n % 256)
to_bytes(n, length) ==
    IF n >= Power(256, length) THEN [ok |-> FALSE, value |-> <<>>]
    ELSE [ok |-> TRUE, value |-> big_endian(n, length)]

\* format(y, 'x'): the hexadecimal digits of y
RECURSIVE format_x(_)
format_x(y) == IF y < 16 THEN <<y>> ELSE Append(format_x(y \div 16), y % 16)
\* str.zfill(width)
zfill(s, width) ==
    IF Len(s) >= width THEN s ELSE [i \in 1..(width - Len(s)) |-> 0] \o s
\* int(y_hex, 16)
RECURSIVE int_16(_)
int_16(y_hex) ==
    IF y_hex = <<>> THEN 0
    ELSE 16 * int_16(SubSeq(y_hex, 1, Len(y_hex) - 1)) + y_hex[Len(y_hex)]

\* extended_gcd(a, b) of _mod_inverse: <<gcd, x, y>>
RECURSIVE extended_gcd(_, _)
extended_gcd(a, b) ==
    IF a = 0 THEN <<b, 0, 1>>
    ELSE LET r == extended_gcd(b % a, a)
         IN  <<r[1], r[3] - (b \div a) * r[2], r[2]>>
mod_inverse(a, m) == ((extended_gcd(a % m, m)[2] % m) + m) % m

\* _generate_coefficients: the secret, then threshold - 1 draws of 1..prime-1
Coefficients(secret, threshold) ==
    {<<secret>> \o c : c \in [1..(threshold - 1) -> 1..(PRIME - 1)]}

\* pow(x, i, prime)
pow(x, i, m) == Power(x, i) % m

\* _evaluate_polynomial; the code's index i runs from 0
RECURSIVE evaluate_from(_, _, _, _)
evaluate_from(coefficients, x, k, result) ==
    IF k > Len(coefficients) THEN result
    ELSE evaluate_from(coefficients, x, k + 1,
                       (result + coefficients[k] * pow(x, k - 1, PRIME)) % PRIME)
evaluate_polynomial(coefficients, x) == evaluate_from(coefficients, x, 1, 0)

\* split_secret after the coefficients are drawn: (i, share_hex) for i = 1..n
share_hex(y) == zfill(format_x(y), Len(format_x(PRIME)))
split_secret(coefficients, total_shares) ==
    [i \in 1..total_shares |-> <<i, share_hex(evaluate_polynomial(coefficients, i))>>]

\* the two products of one Lagrange coefficient
numerator_step_unsigned(numerator, xj) == (numerator * xj) % PRIME
numerator_step(numerator, xj) == (numerator * (0 - xj)) % PRIME
denominator_step(denominator, xi, xj) == (denominator * (xi - xj)) % PRIME

RECURSIVE lagrange_products(_, _, _, _, _)
lagrange_products(points, i, j, numerator, denominator) ==
    IF j > Len(points) THEN <<numerator, denominator>>
    ELSE IF i = j THEN lagrange_products(points, i, j + 1, numerator, denominator)
    ELSE lagrange_products(points, i, j + 1,
                           numerator_step(numerator, points[j][1]),
                           denominator_step(denominator, points[i][1], points[j][1]))

RECURSIVE interpolate_from(_, _, _)
interpolate_from(points, i, secret_int) ==
    IF i > Len(points) THEN secret_int
    ELSE LET nd == lagrange_products(points, i, 1, 1, 1)
             lagrange_coef == (nd[1] * mod_inverse(nd[2], PRIME)) % PRIME
         IN  interpolate_from(points, i + 1,
                              (secret_int + points[i][2] * lagrange_coef) % PRIME)

\* reconstruct_secret of a sharing with the given threshold
reconstruct_secret(shares, secret_length, threshold) ==
    IF Len(shares) < threshold THEN [ok |-> FALSE, value |-> <<>>]
    ELSE LET used == SubSeq(shares, 1, threshold)
             points == [k \in 1..threshold |-> <<used[k][1], int_16(used[k][2])>>]
         IN  to_bytes(interpolate_from(points, 1, 0), secret_length)

\* ShamirSecretSharing(threshold, total_shares) accepts 2 <= threshold <= total_shares
Sharings ==
    {tn \in (2..MaxThreshold) \X (2..MaxTotalShares) : tn[1] <= tn[2]}

\* the ways to hand in exactly t of the n shares, in any order
Selections(t, n) == {f \in [1..t -> 1..n] : \A a, b \in 1..t : f[a] = f[b] => a = b}

ShamirInit ==
    /\ CoreInit
    /\ AuditInit
    /\ tampered = NoVoteTamper
    /\ crypto = NoCrypto
    /\ calc \in {[pc |-> "secret", secret_bytes |-> s, threshold |-> tn[1],
                  total_shares |-> tn[2], shares |-> <<>>, given |-> <<>>,
                  out |-> [ok |-> FALSE, value |-> <<>>]] :
                    s \in ByteStrings, tn \in Sharings}

\* split_secret raises ValueError on a secret outside the field
SplitRefuse ==
    /\ calc.pc = "secret"
    /\ from_bytes(calc.secret_bytes) >= PRIME
    /\ calc' = [calc EXCEPT !.pc = "refused"]
    /\ UNCHANGED <<coreVars, tampered, auditVars, crypto>>

Split ==
    /\ calc.pc = "secret"
    /\ from_bytes(calc.secret_bytes) < PRIME
    /\ \E coefficients \in Coefficients(from_bytes(calc.secret_bytes), calc.threshold) :
           calc' = [calc EXCEPT !.pc = "split",
                                !.shares = split_secret(coefficients, calc.total_shares)]
    /\ UNCHANGED <<coreVars, tampered, auditVars, crypto>>

Reconstruct ==
    /\ calc.pc = "split"
    /\ \E f \in Selections(calc.threshold, calc.total_shares) :
           LET given == [k \in 1..calc.threshold |-> calc.shares[f[k]]]
           IN  calc' = [calc EXCEPT
                           !.pc = "reconstructed",
                           !.given = given,
                           !.out = reconstruct_secret(given, Len(calc.secret_bytes),
                                                      calc.threshold)]
    /\ UNCHANGED <<coreVars, tampered, auditVars, crypto>>

ShamirNext == SplitRefuse \/ Split \/ Reconstruct

SpecShamir == ShamirInit /\ [][ShamirNext]_vars

\* C11: for a secret below the prime and 2 <= t <= n, reconstruct_secret of any t
\* shares of split_secret, handed in in any order, with the secret's length,
\* returns the secret.
C11_ShamirRoundTrip ==
    calc.pc = "reconstructed" =>
        calc.out = [ok |-> TRUE, value |-> calc.secret_bytes]

C11_Witness ==
    /\ calc.pc = "reconstructed"
    /\ calc.threshold = 3
    /\ calc.total_shares = 4
    /\ from_bytes(calc.secret_bytes) = PRIME - 1
    /\ calc.given[1][1] > calc.given[2][1]
    /\ calc.given[3][1] = 4
    /\ calc.out.ok

(***************************************************************************)
(* The PR seat allocation, VoteService._allocate_pr_seats, called on a     *)
(* dict of party votes and called again with one vote more for one party.  *)
(* A dict is the sequence of its items <<party_id, votes>> in insertion    *)
(* order.  The code divides in floating point: votes / quota is the exact  *)
(* quotient votes * total_seats / total_votes moved by a rounding error    *)
(* far smaller than 1 / total_votes, kept here as its direction (-1, 0, 1) *)
(* which is any function of the votes.                                     *)
(***************************************************************************)
MaxParties == 3      \* parties of a dict of votes
MaxVotes == 3        \* votes of one party
MaxSeats == 3        \* total_seats

PartyId(n) == <<"PTY", n>>

\* the dicts {party_id: votes} over the first MaxParties parties
PartyVotes ==
    UNION {{[i \in 1..k |-> <<PartyId(f[i]), v[i]>>] :
               f \in {g \in [1..k -> 1..MaxParties] :
                         \A a, b \in 1..k : g[a] = g[b] => a = b},
               v \in [1..k -> 0..MaxVotes]} :
           k \in 0..MaxParties}

\* the worked example of the documentation: 10 seats, A 42, B 31, C 15, D 12
Example ==
    [party_votes |-> <<<<PartyId(1), 42>>, <<PartyId(2), 31>>,
                       <<PartyId(3), 15>>, <<PartyId(4), 12>>>>,
     total_seats |-> 10]

\* sum(party_votes.values()), sum(allocation.values())
RECURSIVE sum_values(_)
sum_values(d) ==
    IF d = <<>> THEN 0 ELSE d[1][2] + sum_values(Tail(d))

\* the directions the rounding of votes / quota can take; 0 / quota is exact
Roundings(party_votes) ==
    {r \in [{x[2] : x \in Range(party_votes)} -> {-1, 0, 1}] :
        \A v \in DOMAIN r : v = 0 => r[v] = 0}

\* votes / quota with quota = total_votes / total_seats: the whole part and the
\* fraction num / total_votes of the exact quotient, and the rounding direction
quotient(v, total_votes, total_seats, dir) ==
    [whole |-> (v * total_seats) \div total_votes,
     num |-> (v * total_seats) % total_votes,
     den |-> total_votes,
     dir |-> dir]

\* int(votes / quota): a quotient rounded to just below a whole number truncates
\* to the number before it
int_rounded(q) == IF q.num * 2 >= q.den THEN q.whole + 1 ELSE q.whole
int_of(q) ==
    IF q.num = 0 /\ q.dir = -1 /\ q.whole > 0 THEN q.whole - 1 ELSE q.whole

\* (votes / quota) - seats, as <<numerator over total_votes, direction>>
remainder_of(q) ==
    IF q.num = 0 /\ q.dir = -1 /\ q.whole > 0 THEN <<q.den, -1>>
    ELSE <<q.num, q.dir>>

\* sorted(remainders.items(), key=lambda x: x[1], reverse=True): item i comes
\* before item j; the sort is stable, equal keys keep the order of the dict
comes_before_ascending(remainders, i, j) ==
    \/ remainders[i][1] < remainders[j][1]
    \/ remainders[i][1] = remainders[j][1] /\ remainders[i][2] < remainders[j][2]
    \/ remainders[i] = remainders[j] /\ i < j
comes_before(remainders, i, j) ==
    \/ remainders[i][1] > remainders[j][1]
    \/ remainders[i][1] = remainders[j][1] /\ remainders[i][2] > remainders[j][2]
    \/ remainders[i] = remainders[j] /\ i < j

\* remaining_seats = total_seats - allocated_seats
all_seats_remaining(total_seats, allocated_seats) == total_seats
remaining_seats(total_seats, allocated_seats) == total_seats - allocated_seats

\* the length of sorted_remainders[:remaining_seats] for a list of n items
slice_length(n, stop) ==
    IF stop >= 0 THEN (IF stop < n THEN stop ELSE n)
    ELSE (IF n + stop > 0 THEN n + stop ELSE 0)

\* _allocate_pr_seats with the roundings r of its divisions
allocate_pr_seats(party_votes, total_seats, r) ==
    LET total_votes == sum_values(party_votes)
        n == Len(party_votes)
    IN  IF party_votes = <<>> THEN <<>>
        ELSE IF total_votes = 0 THEN [i \in 1..n |-> <<party_votes[i][1], 0>>]
        ELSE
            LET q == [i \in 1..n |->
                         quotient(party_votes[i][2], total_votes, total_seats,
                                  r[party_votes[i][2]])]
                allocation == [i \in 1..n |-> <<party_votes[i][1], int_of(q[i])>>]
                remainders == [i \in 1..n |-> remainder_of(q[i])]
                taken == slice_length(n, remaining_seats(total_seats,
                                                         sum_values(allocation)))
                position(i) == Cardinality({j \in 1..n : comes_before(remainders, j, i)})
            IN  [i \in 1..n |->
                    <<allocation[i][1],
                      allocation[i][2] + (IF position(i) < taken THEN 1 ELSE 0)>>]

PrInit ==
    /\ CoreInit
    /\ AuditInit
    /\ tampered = NoVoteTamper
    /\ crypto = NoCrypto
    /\ calc \in {[pc |-> "votes", party_votes |-> pv[1], total_seats |-> pv[2],
                  allocation |-> <<>>, p |-> 0, more_votes |-> <<>>,
                  more_allocation |-> <<>>] :
                    pv \in (PartyVotes \X (1..MaxSeats))
                           \cup {<<Example.party_votes, Example.total_seats>>}}

Allocate ==
    /\ calc.pc = "votes"
    /\ \E r \in Roundings(calc.party_votes) :
           calc' = [calc EXCEPT
                       !.pc = "allocated",
                       !.allocation = allocate_pr_seats(calc.party_votes,
                                                        calc.total_seats, r)]
    /\ UNCHANGED <<coreVars, tampered, auditVars, crypto>>

\* the same dict with one vote more for its p-th party, allocated again
AllocateWithOneMore(p) ==
    /\ calc.pc = "allocated"
    /\ p \in DOMAIN calc.party_votes
    /\ LET more == [calc.party_votes EXCEPT ![p] = <<@[1], @[2] + 1>>]
       IN  \E r \in Roundings(more) :
               calc' = [calc EXCEPT
                           !.pc = "compared",
                           !.p = p,
                           !.more_votes = more,
                           !.more_allocation = allocate_pr_seats(more,
                                                                 calc.total_seats, r)]
    /\ UNCHANGED <<coreVars, tampered, auditVars, crypto>>

PrNext ==
    \/ Allocate
    \/ \E p \in 1..(MaxParties + 1) : AllocateWithOneMore(p)

SpecPr == PrInit /\ [][PrNext]_vars

\* C12: for votes with at least one vote in total and total_seats >= 1 the seats
\* returned by _allocate_pr_seats sum to total_seats.
C12_SeatsSumToTotal ==
    /\ (calc.pc \in {"allocated", "compared"} /\ sum_values(calc.party_votes) >= 1) =>
           sum_values(calc.allocation) = calc.total_seats
    /\ calc.pc = "compared" =>
           sum_values(calc.more_allocation) = calc.total_seats

C12_Witness ==
    /\ calc.pc = "allocated"
    /\ Len(calc.party_votes) = 3
    /\ calc.total_seats = 3
    /\ sum_values(calc.party_votes) = 5
    /\ \E i \in 1..3 : calc.party_votes[i][2] = 0
    /\ \E i \in 1..3 : calc.allocation[i][2] = 2

\* the exact quota arithmetic the documentation states the rule in
ExactFloor(d, total_seats, i) == (d[i][2] * total_seats) \div sum_values(d)
ExactRemainder(d, total_seats, i) == (d[i][2] * total_seats) % sum_values(d)

\* C13: of parties with equal remainders of which only some get a remaining seat,
\* the ones that get it come first by raw votes descending, then by party_id
\* ascending, whatever the order of the dict.
C13_TieBreak ==
    (calc.pc = "allocated" /\ sum_values(calc.party_votes) >= 1) =>
        \A i, j \in DOMAIN calc.party_votes :
            LET d == calc.party_votes
                S == calc.total_seats
            IN  ( /\ ExactRemainder(d, S, i) = ExactRemainder(d, S, j)
                  /\ calc.allocation[i][2] = ExactFloor(d, S, i) + 1
                  /\ calc.allocation[j][2] = ExactFloor(d, S, j) ) =>
                    \/ d[i][2] > d[j][2]
                    \/ d[i][2] = d[j][2] /\ d[i][1][2] < d[j][1][2]

\* C14: one vote more for party p, the other parties' votes unchanged, never
\* gives p fewer seats.
C14_Monotone ==
    calc.pc = "compared" =>
        calc.more_allocation[calc.p][2] >= calc.allocation[calc.p][2]

C14_Witness ==
    /\ calc.pc = "compared"
    /\ Len(calc.party_votes) = 3
    /\ sum_values(calc.party_votes) >= 1
    /\ calc.more_allocation[calc.p][2] = calc.allocation[calc.p][2] + 1
    /\ \E i \in 1..3 : i # calc.p /\ calc.more_allocation[i][2] < calc.allocation[i][2]

\* C15: with q = total_votes / total_seats every party gets floor(votes / q) or one
\* seat more, and gets the one more only if every party with a strictly larger
\* remainder gets one more too; 10 seats for 42, 31, 15, 12 votes are 4, 3, 2, 1.
C15_HareQuota ==
    (calc.pc = "allocated" /\ sum_values(calc.party_votes) >= 1) =>
        LET d == calc.party_votes
            S == calc.total_seats
        IN  /\ \A i \in DOMAIN d :
                   /\ calc.allocation[i][1] = d[i][1]
                   /\ calc.allocation[i][2] \in
                          {ExactFloor(d, S, i), ExactFloor(d, S, i) + 1}
                   /\ calc.allocation[i][2] = ExactFloor(d, S, i) + 1 =>
                          \A j \in DOMAIN d :
                              ExactRemainder(d, S, j) > ExactRemainder(d, S, i) =>
                                  calc.allocation[j][2] = ExactFloor(d, S, j) + 1
            /\ (d = Example.party_votes /\ S = Example.total_seats) =>
                   calc.allocation = <<<<PartyId(1), 4>>, <<PartyId(2), 3>>,
                                       <<PartyId(3), 2>>, <<PartyId(4), 1>>>>

C15_Witness ==
    /\ calc.pc = "allocated"
    /\ calc.party_votes = Example.party_votes
    /\ calc.total_seats = Example.total_seats
    /\ calc.allocation[3] = <<PartyId(3), 2>>

(***************************************************************************)
(* The FPTP results, VoteService._build_fptp_results, built from an        *)
(* election document (its list of candidates, in the order of the          *)
(* document) and the decrypted vote counts.                                *)
(***************************************************************************)
MaxCandidates == 3   \* candidates of the election document
MaxCount == 2        \* votes counted for one candidate

VALID_CONSTITUENCIES == <<"Kathmandu", "Lalitpur", "Bhaktapur">>

CandidateId(n) == <<"CND", n>>

\* election.candidates: lists of candidates with different ids
CandidateLists ==
    UNION {{[i \in 1..k |-> [candidate_id |-> CandidateId(f[i]), constituency |-> c[i]]] :
               f \in {g \in [1..k -> 1..MaxCandidates] :
                         \A a, b \in 1..k : g[a] = g[b] => a = b},
               c \in [1..k -> Range(VALID_CONSTITUENCIES)]} :
           k \in 0..MaxCandidates}

\* dict.get(key, default) of a dict given as a function
dict_get(d, key, default) == IF key \in DOMAIN d THEN d[key] ELSE default

\* Election.get_candidates_by_constituency: in the order of the document
RECURSIVE get_candidates_by_constituency(_, _)
get_candidates_by_constituency(candidates, constituency) ==
    IF candidates = <<>> THEN <<>>
    ELSE (IF candidates[1].constituency = constituency THEN <<candidates[1]>> ELSE <<>>)
         \o get_candidates_by_constituency(Tail(candidates), constituency)

\* candidates_results.sort(key=lambda x: x['votes'], reverse=True): the sort is
\* stable, candidates with equal votes keep the order they had
sort_by_votes_reverse(candidates_results) ==
    LET n == Len(candidates_results)
        position(i) ==
            Cardinality({j \in 1..n :
                \/ candidates_results[j].votes > candidates_results[i].votes
                \/ /\ candidates_results[j].votes = candidates_results[i].votes
                   /\ j < i})
    IN  [k \in 1..n |->
            candidates_results[CHOOSE i \in 1..n : position(i) = k - 1]]

RECURSIVE sum_votes(_)
sum_votes(candidates_results) ==
    IF candidates_results = <<>> THEN 0
    ELSE candidates_results[1].votes + sum_votes(Tail(candidates_results))

NoWinner == [candidate_id |-> NoId, votes |-> 0]

\* _build_fptp_results: constituency -> candidates, winner, total_votes
build_fptp_results(candidates, vote_counts) ==
    [constituency \in Range(VALID_CONSTITUENCIES) |->
        LET constituency_candidates ==
                get_candidates_by_constituency(candidates, constituency)
            constituency_votes == dict_get(vote_counts, constituency, <<>>)
            candidates_results ==
                sort_by_votes_reverse(
                    [i \in DOMAIN constituency_candidates |->
                        [candidate_id |-> constituency_candidates[i].candidate_id,
                         votes |-> dict_get(constituency_votes,
                                            constituency_candidates[i].candidate_id, 0)]])
        IN  [candidates |-> candidates_results,
             winner |-> IF candidates_results # <<>> THEN candidates_results[1]
                        ELSE NoWinner,
             total_votes |-> sum_votes(candidates_results)]]

\* fptp_counts of decrypt_and_get_results: constituency -> candidate_id -> count,
\* with a key for every constituency and candidate some ballot named
VoteCounts(candidates) ==
    {[constituency \in {candidates[i].constituency :
                          i \in {j \in DOMAIN candidates : n[j] > 0}} |->
        [id \in {candidates[i].candidate_id :
                    i \in {j \in DOMAIN candidates :
                              /\ n[j] > 0
                              /\ candidates[j].constituency = constituency}} |->
            n[CHOOSE i \in DOMAIN candidates : candidates[i].candidate_id = id]]] :
     n \in [DOMAIN candidates -> 0..MaxCount]}

FptpInit ==
    /\ CoreInit
    /\ AuditInit
    /\ tampered = NoVoteTamper
    /\ crypto = NoCrypto
    /\ \E candidates \in CandidateLists :
           calc \in {[pc |-> "counted", candidates |-> candidates, vote_counts |-> vc,
                      results |-> <<>>] : vc \in VoteCounts(candidates)}

BuildFptpResults ==
    /\ calc.pc = "counted"
    /\ calc' = [calc EXCEPT
                   !.pc = "built",
                   !.results = build_fptp_results(calc.candidates, calc.vote_counts)]
    /\ UNCHANGED <<coreVars, tampered, auditVars, crypto>>

FptpNext == BuildFptpResults

SpecFptp == FptpInit /\ [][FptpNext]_vars

\* C16: in every constituency the candidates are listed by votes descending, the
\* winner is the first of them, and candidates with equal votes are listed by
\* candidate_id ascending, whatever their order in the election document.
C16_FptpOrder ==
    calc.pc = "built" =>
        \A constituency \in Range(VALID_CONSTITUENCIES) :
            LET r == calc.results[constituency]
            IN  /\ \A i, j \in DOMAIN r.candidates :
                       i < j =>
                           \/ r.candidates[i].votes > r.candidates[j].votes
                           \/ /\ r.candidates[i].votes = r.candidates[j].votes
                              /\ r.candidates[i].candidate_id[2] <
                                     r.candidates[j].candidate_id[2]
                /\ r.candidates # <<>> => r.winner = r.candidates[1]

(***************************************************************************)
(* The token and vote services with both casts and a running clock, one    *)
(* request after the other: what a request that starts after a successful  *)
(* cast gets.                                                              *)
(***************************************************************************)
DoubleNext ==
    \/ \E i \in Sequential, v \in DOMAIN voters : started < MaxSeqRequests /\ StartIssue(i, v)
    \/ \E i \in Sequential : IssueCheck(i)
    \/ \E i \in Sequential : IssueCreate(i)
    \/ \E i \in Sequential : IssueMark(i)
    \/ \E i \in Sequential, t \in PresentableTokens, b \in BallotTypes :
          started < MaxSeqRequests /\ StartUse(i, t, b)
    \/ \E i \in Sequential : UseFind(i)
    \/ \E i \in Sequential : UseMark(i)
    \/ \E i \in Sequential, v \in DOMAIN voters, t \in PresentableTokens,
          c \in CandidateIds, p \in PartyIds : started < MaxSeqRequests /\ StartCast(i, v, t, c, p)
    \/ \E i \in Sequential : CastValidate(i)
    \/ \E i \in Sequential : CastStoreFptp(i)
    \/ \E i \in Sequential : CastStorePr(i)
    \/ \E i \in Sequential : MarkVoted(i)
    \/ \E i \in Sequential, v \in DOMAIN voters, c \in CandidateIds, p \in PartyIds :
          started < MaxSeqRequests /\ StartCastLegacy(i, v, c, p)
    \/ \E i \in Sequential : LegacyCheck(i)
    \/ \E i \in Sequential : LegacyStoreFptp(i)
    \/ \E i \in Sequential : LegacyStorePr(i)
    \/ \E i \in Sequential : Return(i)
    \/ Tick

SpecDouble == Init /\ [][DoubleNext]_vars

AlreadyVoted == "You have already voted in this election"

\* the casts, of either kind, that started after a cast_dual_ballot_with_token of
\* their elector had succeeded
LaterCasts ==
    {i \in Workers : w[i].later /\ w[i].op \in {"cast", "cast_dual_ballot"}}
\* the use_token_for_ballot calls made after a cast with their token had succeeded
LaterUses == {i \in Workers : w[i].later /\ w[i].op = "use"}

\* what C17 says of the store, of the ballot records and of the used token
DoubleVotePrevented ==
    /\ \A s \in succeeded :
           s.op = "cast" => ElectionId \in Range(voters[s.voter].elections_voted)
    /\ \A i \in LaterCasts : w[i].pc \in {"c_validate", "l_check", "done"}
    /\ \A i \in LaterUses :
           /\ w[i].pc \in {"u_find", "done"}
           /\ w[i].pc = "done" => w[i].result # "ok"

WrongConstituency(rec) ==
    /\ rec.op = "cast"
    /\ \E c \in get_candidate(TheElection, rec.candidate_id) :
           c.constituency # rec.constituency

\* C18: a cast_dual_ballot_with_token with a candidate of another constituency
\* than the elector's is rejected, and none of its steps writes: votes, the tokens
\* (ballots_used, is_fully_used) and the voters (elections_voted) stay as they are.
C18_WrongConstituencyRejected ==
    [][\A i \in Workers :
          (w'[i] # w[i] /\ (WrongConstituency(w[i]) \/ WrongConstituency(w'[i]))) =>
              /\ w'[i].pc \in {"c_validate", "done", "idle"}
              /\ w'[i].pc = "done" => w'[i].result # "ok"
              /\ votes' = votes
              /\ voting_tokens' = voting_tokens
              /\ voters' = voters]_vars

C18_Witness ==
    \E i \in Workers :
        /\ WrongConstituency(w[i])
        /\ w[i].pc = "done"
        /\ w[i].result = "You can only vote for candidates in your constituency"
        /\ w[i].token_id \in DOMAIN voting_tokens
        /\ voting_tokens[w[i].token_id].ballots_used = <<>>

\* C19: an issue_token that starts after an issue_token of the same elector has
\* succeeded fails and creates no token, whether the elector has voted or not.
C19_NoSecondToken ==
    \A i \in Workers :
        (w[i].op = "issue" /\ w[i].later) =>
            /\ w[i].pc \in {"i_check", "done"}
            /\ w[i].pc = "done" => w[i].result # "ok"

C19_Witness ==
    \E i, j \in Workers :
        /\ w[i].op = "issue" /\ w[i].later /\ w[i].pc = "done"
        /\ w[i].result = "A voting token has already been issued for this election"
        /\ w[j].op = "issue" /\ w[j].later /\ w[j].pc = "done"
        /\ w[j].result = AlreadyVoted

(***************************************************************************)
(* The election's clock gates: the is_ongoing test that opens a cast, the  *)
(* has_ended test of VoteService.decrypt_and_get_results, and              *)
(* ElectionService.terminate_election, which moves end_date.  Each handler *)
(* reads the election document (find_by_election_id) and then tests its    *)
(* copy against the clock; Election.terminate is an update of its own.     *)
(***************************************************************************)
MaxGateRequests == 3   \* requests started along one behaviour of the gates

IdleG ==
    [op |-> "idle", pc |-> "idle", election |-> TheElection, result |-> "none",
     at |-> NoTime,              \* ghost: the clock when the copy was tested
     stored_end |-> NoTime,      \* ghost: end_date of the store at that time
     later |-> FALSE]            \* ghost: the copy was read after a deactivation

\* Election.has_started
has_started(e, t) == t >= e.start_date

GateInit ==
    /\ CoreInit
    /\ AuditInit
    /\ tampered = NoVoteTamper
    /\ crypto = NoCrypto
    /\ calc = [pc |-> "gates",
               election |-> TheElection,       \* the document of the store
               req |-> [i \in Workers |-> IdleG],
               started |-> 0,
               keys_reconstructed |-> 0,       \* calls of reconstruct_private_keys
               accepted |-> {},                \* ghost: <<operation, time>> accepted
               deactivated |-> FALSE]          \* ghost: Election.deactivate was applied

GateFrame == UNCHANGED <<coreVars, tampered, auditVars, crypto>>

Tested(rec, result) ==
    [rec EXCEPT !.pc = "done", !.result = result, !.at = now,
                !.stored_end = calc.election.end_date]

\* Election.find_by_election_id, first line of each of the three handlers
FindElection(i, op) ==
    /\ calc.pc = "gates"
    /\ calc.req[i].op = "idle"
    /\ calc.started < MaxGateRequests
    /\ calc' = [calc EXCEPT !.req[i] = [IdleG EXCEPT !.op = op, !.pc = "test",
                                                     !.election = calc.election,
                                                     !.later = calc.deactivated],
                            !.started = @ + 1]
    /\ GateFrame

\* cast_dual_ballot_with_token, lines 112-117: the cast goes on when is_ongoing
CastGate(i) ==
    /\ calc.pc = "gates"
    /\ calc.req[i].op = "cast" /\ calc.req[i].pc = "test"
    /\ LET r == ElectionCheck(calc.req[i].election, now)
       IN  calc' = [calc EXCEPT
                       !.req[i] = Tested(@, r),
                       !.accepted = IF r = "ok" THEN @ \cup {<<"cast", now>>} ELSE @]
    /\ GateFrame

\* decrypt_and_get_results, lines 431-487: the keys are put together and the
\* ballots decrypted only past the has_ended test
DecryptAndGetResults(i) ==
    /\ calc.pc = "gates"
    /\ calc.req[i].op = "tally" /\ calc.req[i].pc = "test"
    /\ IF ~has_ended(calc.req[i].election, now)
       THEN calc' = [calc EXCEPT
                        !.req[i] = Tested(@, "Results are only available after the election has ended")]
       ELSE calc' = [calc EXCEPT
                        !.req[i] = Tested(@, "ok"),
                        !.keys_reconstructed = @ + 1,
                        !.accepted = @ \cup {<<"tally", now>>}]
    /\ GateFrame

\* terminate_election, lines 241-245
TerminateCheck(i) ==
    /\ calc.pc = "gates"
    /\ calc.req[i].op = "terminate" /\ calc.req[i].pc = "test"
    /\ LET e == calc.req[i].election
       IN  calc' = [calc EXCEPT !.req[i] =
                       IF ~has_started(e, now)
                           THEN Tested(@, "Cannot terminate an election that hasn't started yet")
                       ELSE IF has_ended(e, now) THEN Tested(@, "Election has already ended")
                       ELSE [@ EXCEPT !.pc = "terminate"]]
    /\ GateFrame

\* Election.terminate: $set end_date to datetime.utcnow()
Terminate(i) ==
    /\ calc.pc = "gates"
    /\ calc.req[i].pc = "terminate"
    /\ calc' = [calc EXCEPT !.election.end_date = now,
                            !.req[i] = [@ EXCEPT !.pc = "done", !.result = "ok", !.at = now,
                                                 !.stored_end = now]]
    /\ GateFrame

GateReturn(i) ==
    /\ calc.pc = "gates"
    /\ calc.req[i].pc = "done"
    /\ calc' = [calc EXCEPT !.req[i] = IdleG]
    /\ GateFrame

GateNext ==
    \/ \E i \in Workers, op \in {"cast", "tally", "terminate"} : FindElection(i, op)
    \/ \E i \in Workers : CastGate(i)
    \/ \E i \in Workers : DecryptAndGetResults(i)
    \/ \E i \in Workers : TerminateCheck(i)
    \/ \E i \in Workers : Terminate(i)
    \/ \E i \in Workers : GateReturn(i)
    \/ Tick

SpecGate == GateInit /\ [][GateNext]_vars

\* the tally calls that have returned
Tallies == {i \in Workers : calc.req[i].op = "tally" /\ calc.req[i].pc = "done"}

\* C20: decrypt_and_get_results returns results only when the stored end_date is
\* not after the clock; while end_date is after the clock it fails and no key is
\* reconstructed; and no cast and tally are accepted at one and the same time.
C20_TallyGating ==
    /\ \A i \in Tallies :
           /\ calc.req[i].result = "ok" => calc.req[i].stored_end <= calc.req[i].at
           /\ calc.req[i].stored_end > calc.req[i].at => calc.req[i].result # "ok"
    /\ (calc.election.end_date > now /\ calc.election = TheElection) =>
           calc.keys_reconstructed = 0
    /\ \A t \in 0..MaxNow : ~({<<"cast", t>>, <<"tally", t>>} \subseteq calc.accepted)

\* the two parts of C20 that are about the tally alone
C20_TallyOnlyAfterEnd ==
    /\ \A i \in Tallies :
           /\ calc.req[i].result = "ok" => calc.req[i].stored_end <= calc.req[i].at
           /\ calc.req[i].stored_end > calc.req[i].at => calc.req[i].result # "ok"
    /\ (calc.election.end_date > now /\ calc.election = TheElection) =>
           calc.keys_reconstructed = 0

(***************************************************************************)
(* The count of VoteService.decrypt_and_get_results: the loop over the     *)
(* stored ballot records of the election, lines 445-475, with the private  *)
(* keys of the election already put together.                              *)
(***************************************************************************)
MaxBallots == 2   \* stored ballot records of the election

\* encrypted_vote of a record that holds none (None or the empty string)
NoBlob == [algorithm |-> "none"]

\* a blob whose ciphertext was replaced behind the code: AES-GCM does not
\* authenticate it under the key that the RSA and Kyber parts give back
TamperedBlob(d) ==
    [encrypt_vote(d, TheElection.public_key, {<<"aes_key", 1>>}, {<<"kyber_ss", 1>>})
        EXCEPT !.ciphertext = AesGcmEncrypt({<<"aes_key", 0>>}, d)]

\* the values of encrypted_vote: made by encrypt_vote for the keys of some
\* election, tampered, or missing
Blobs ==
    {encrypt_vote(d, PublicKeys(n), {<<"aes_key", 1>>}, {<<"kyber_ss", 1>>}) :
        d \in VoteData, n \in 1..MaxKeyPairs}
    \cup {TamperedBlob(d) : d \in VoteData}
    \cup {NoBlob}

NoCounts == [c \in CandidateIds \cup PartyIds |-> 0]

\* the choice counted for a decrypted ballot, lines 458-475
choice_of(decrypted) ==
    IF decrypted.ballot_type = "fptp" THEN decrypted.candidate_id ELSE decrypted.party_id

\* the loop of lines 451-475 from record k on; an exception of decrypt_vote
\* leaves the loop and the function (line 489)
RECURSIVE count_votes(_, _, _, _, _)
count_votes(encrypted_votes, k, rsa_private_key, kyber_private_key, acc) ==
    IF k > Len(encrypted_votes) THEN [ok |-> TRUE, counts |-> acc.counts, counted |-> acc.counted]
    ELSE IF encrypted_votes[k].algorithm = "none"      \* line 452: continue
        THEN count_votes(encrypted_votes, k + 1, rsa_private_key, kyber_private_key, acc)
    ELSE LET decrypted == decrypt_vote(encrypted_votes[k], rsa_private_key, kyber_private_key)
         IN  IF ~decrypted.ok
                 THEN [ok |-> FALSE, counts |-> NoCounts, counted |-> 0]
                 ELSE count_votes(encrypted_votes, k + 1, rsa_private_key, kyber_private_key,
                                  [counts |-> [acc.counts EXCEPT
                                                  ![choice_of(decrypted.value)] = @ + 1],
                                   counted |-> acc.counted + 1])

CountInit ==
    /\ CoreInit
    /\ AuditInit
    /\ tampered = NoVoteTamper
    /\ crypto = NoCrypto
    /\ \E n \in 1..MaxBallots :
           calc \in {[pc |-> "stored", encrypted_votes |-> s,
                      out |-> [ok |-> FALSE, counts |-> NoCounts, counted |-> 0]] :
                        s \in [1..n -> Blobs]}

\* decrypt_and_get_results past its gates, with the keys of the election
DecryptAndCount ==
    /\ calc.pc = "stored"
    /\ calc' = [calc EXCEPT
                   !.pc = "counted",
                   !.out = count_votes(calc.encrypted_votes, 1, RsaPrivateKey(1),
                                       KyberPrivateKey(1), [counts |-> NoCounts, counted |-> 0])]
    /\ UNCHANGED <<coreVars, tampered, auditVars, crypto>>

CountNext == DecryptAndCount

SpecCount == CountInit /\ [][CountNext]_vars

\* the stored records that decrypt and authenticate under the keys of the election
Decryptable(blob) ==
    /\ blob.algorithm # "none"
    /\ decrypt_vote(blob, RsaPrivateKey(1), KyberPrivateKey(1)).ok

\* C21: when a stored ballot record of the election cannot be decrypted and
\* authenticated (other keys, tampered or missing ciphertext) the tally fails as a
\* whole, and a tally that succeeds has counted every stored record.
C21_TallyAllOrNothing ==
    calc.pc = "counted" =>
        /\ (\E k \in DOMAIN calc.encrypted_votes : ~Decryptable(calc.encrypted_votes[k]))
               => ~calc.out.ok
        /\ calc.out.ok => calc.out.counted = Len(calc.encrypted_votes)

\* the same with the records that hold no ciphertext set aside
C21_FailsOnBadCiphertext ==
    calc.pc = "counted" =>
        /\ (\E k \in DOMAIN calc.encrypted_votes :
               /\ calc.encrypted_votes[k].algorithm # "none"
               /\ ~Decryptable(calc.encrypted_votes[k])) => ~calc.out.ok
        /\ calc.out.ok =>
               calc.out.counted =
                   Cardinality({k \in DOMAIN calc.encrypted_votes :
                                   calc.encrypted_votes[k].algorithm # "none"})

(***************************************************************************)
(* AuthService.login_voter, app/services/auth_service.py, against the      *)
(* registered electors of the store.  A password is a number, 0 the empty  *)
(* string; hash_password is the bcrypt hash that Voter.create stores.      *)
(***************************************************************************)
MaxLoginIds == 3     \* well-formed voter ids that a login may present
MaxPasswords == 2    \* non-empty passwords that a login may present
MaxLogins == 2       \* logins along one behaviour

\* the voter ids a login presents: well-formed ones, the empty string and one
\* that does not match ^VTR-[A-F0-9]{8}$
LoginIds == {VoterId(n) : n \in 1..MaxLoginIds} \cup {NoId, <<"vtr", 1>>}
Passwords == 0..MaxPasswords

\* validate_voter_id
validate_voter_id(voter_id) ==
    IF voter_id = NoId THEN "Voter ID is required"
    ELSE IF voter_id[1] # "VTR" THEN "Invalid Voter ID format"
    ELSE ""

hash_password(password) == <<"bcrypt", password>>

\* verify_password: bcrypt.checkpw
verify_password(password, password_hash) == hash_password(password) = password_hash

LoginFailure(message) == [success |-> FALSE, message |-> message, voter |-> NoId]

\* the answers to an unknown id (line 87) and to a wrong password (line 90)
NamesTheCheck == LoginFailure("Voter ID not found")
UnknownVoter == LoginFailure("Invalid Voter ID or password")
WrongPassword == LoginFailure("Invalid Voter ID or password")

\* AuthService.login_voter
login_voter(vs, voter_id, password) ==
    IF validate_voter_id(voter_id) # "" THEN LoginFailure(validate_voter_id(voter_id))
    ELSE IF password = 0 THEN LoginFailure("Password is required")
    ELSE IF voter_id \notin DOMAIN vs THEN UnknownVoter
    ELSE IF ~verify_password(password, vs[voter_id].password_hash) THEN WrongPassword
    ELSE [success |-> TRUE, message |-> "Login successful", voter |-> voter_id]

LoginInit ==
    /\ CoreInit
    /\ AuditInit
    /\ tampered = NoVoteTamper
    /\ crypto = NoCrypto
    /\ calc = [pc |-> "login", log |-> <<>>]

\* one call of login_voter; the call and its outcome are kept
LoginVoter(voter_id, password) ==
    /\ calc.pc = "login"
    /\ Len(calc.log) < MaxLogins
    /\ calc' = [calc EXCEPT !.log = Append(@, [voter_id |-> voter_id, password |-> password,
                                               out |-> login_voter(voters, voter_id, password)])]
    /\ UNCHANGED <<coreVars, tampered, auditVars, crypto>>

LoginNext == \E voter_id \in LoginIds, password \in Passwords : LoginVoter(voter_id, password)

SpecLogin == LoginInit /\ [][LoginNext]_vars

\* the two failing logins that the claim compares
OfUnknownId(l) ==
    /\ validate_voter_id(l.voter_id) = "" /\ l.password # 0
    /\ l.voter_id \notin DOMAIN voters
OfWrongPassword(l) ==
    /\ validate_voter_id(l.voter_id) = "" /\ l.password # 0
    /\ l.voter_id \in DOMAIN voters
    /\ voters[l.voter_id].password_hash # hash_password(l.password)

\* C22: for a well-formed voter id and a non-empty password, a login with an id
\* that does not exist and a login with an existing id and a wrong password have
\* the same outcome: a failure with the same message and no voter.
C22_LoginDoesNotLeak ==
    calc.pc = "login" =>
        \A a, b \in DOMAIN calc.log :
            (OfUnknownId(calc.log[a]) /\ OfWrongPassword(calc.log[b])) =>
                /\ calc.log[a].out = calc.log[b].out
                /\ ~calc.log[a].out.success
                /\ calc.log[a].out.voter = NoId

C22_Witness ==
    /\ calc.pc = "login"
    /\ \E a, b \in DOMAIN calc.log : OfUnknownId(calc.log[a]) /\ OfWrongPassword(calc.log[b])

(***************************************************************************)
(* The life of an election document: ElectionService.terminate_election,   *)
(* deactivate_election, add_candidate_to_election and add_party_to_election*)
(* next to the is_ongoing test of TokenService.issue_token and of the cast.*)
(* Election.save writes the whole document of the caller's copy;           *)
(* Election.terminate and Election.deactivate update one field.            *)
(***************************************************************************)
\* an election that opens after the first clock reading
FutureElection == [TheElection EXCEPT !.start_date = 1, !.end_date = MaxNow]

LifeInit ==
    /\ CoreInit
    /\ AuditInit
    /\ tampered = NoVoteTamper
    /\ crypto = NoCrypto
    /\ \E e \in {TheElection, FutureElection} :
           calc = [pc |-> "gates", election |-> e, req |-> [i \in Workers |-> IdleG],
                   started |-> 0, keys_reconstructed |-> 0, accepted |-> {},
                   deactivated |-> FALSE]

\* issue_token, lines 26-35: the token is issued only when is_ongoing
IssueGate(i) ==
    /\ calc.pc = "gates"
    /\ calc.req[i].op = "issue" /\ calc.req[i].pc = "test"
    /\ LET r == ElectionCheck(calc.req[i].election, now)
       IN  calc' = [calc EXCEPT
                       !.req[i] = Tested(@, r),
                       !.accepted = IF r = "ok" THEN @ \cup {<<"issue", now>>} ELSE @]
    /\ GateFrame

\* deactivate_election with Election.deactivate: $set is_active to False
Deactivate(i) ==
    /\ calc.pc = "gates"
    /\ calc.req[i].op = "deactivate" /\ calc.req[i].pc = "test"
    /\ calc' = [calc EXCEPT !.election.is_active = FALSE,
                            !.deactivated = TRUE,
                            !.req[i] = Tested(@, "ok")]
    /\ GateFrame

\* add_candidate_to_election, add_party_to_election up to the has_started test
AddCheck(i) ==
    /\ calc.pc = "gates"
    /\ calc.req[i].op \in {"add_candidate", "add_party"} /\ calc.req[i].pc = "test"
    /\ calc' = [calc EXCEPT !.req[i] =
                   IF has_started(@.election, now)
                       THEN Tested(@, "Cannot add after election has started")
                       ELSE [@ EXCEPT !.pc = "save"]]
    /\ GateFrame

\* Election.add_candidate / add_party: append to the copy
added(e, op, constituency) ==
    IF op = "add_candidate"
        THEN [e EXCEPT !.candidates =
                 @ \cup {[candidate_id |-> CandidateId(Cardinality(@) + 1),
                          constituency |-> constituency]}]
        ELSE [e EXCEPT !.parties = @ \cup {[party_id |-> PartyId(Cardinality(@) + 1)]}]

\* Election.save: $set of to_dict() of the caller's copy, every field of it
save(stored, copy) == copy

\* Election.add_candidate / add_party with their self.save()
AddSave(i) ==
    /\ calc.pc = "gates"
    /\ calc.req[i].pc = "save"
    /\ \E constituency \in Range(VALID_CONSTITUENCIES) :
           calc' = [calc EXCEPT
                       !.election = save(@, added(calc.req[i].election, calc.req[i].op,
                                                  constituency)),
                       !.req[i] = [@ EXCEPT !.pc = "done", !.result = "ok", !.at = now,
                                            !.stored_end = calc.req[i].election.end_date]]
    /\ GateFrame

LifeNext ==
    \/ \E i \in Workers,
          op \in {"cast", "issue", "terminate", "deactivate", "add_candidate", "add_party"} :
              FindElection(i, op)
    \/ \E i \in Workers : CastGate(i)
    \/ \E i \in Workers : IssueGate(i)
    \/ \E i \in Workers : TerminateCheck(i)
    \/ \E i \in Workers : Terminate(i)
    \/ \E i \in Workers : Deactivate(i)
    \/ \E i \in Workers : AddCheck(i)
    \/ \E i \in Workers : AddSave(i)
    \/ \E i \in Workers : GateReturn(i)
    \/ Tick

SpecLife == LifeInit /\ [][LifeNext]_vars

\* the three states of an election at clock reading t
NotStarted(e, t) == ~has_started(e, t)
ExactlyOneState(e, t) ==
    /\ NotStarted(e, t) \/ is_ongoing(e, t) \/ has_ended(e, t)
    /\ ~(NotStarted(e, t) /\ is_ongoing(e, t))
    /\ ~(NotStarted(e, t) /\ has_ended(e, t))
    /\ ~(is_ongoing(e, t) /\ has_ended(e, t))

\* an active election with start <= end is in exactly one of the three states
OneStateAtATime ==
    (calc.election.is_active /\ calc.election.start_date <= calc.election.end_date)
        => ExactlyOneState(calc.election, now)

\* Election.terminate applied to an ongoing election leaves it ended, not ongoing
TerminateEnds ==
    \A i \in Workers :
        (Terminate(i) /\ is_ongoing(calc.election, now)) =>
            (has_ended(calc'.election, now') /\ ~is_ongoing(calc'.election, now'))

\* the same once the clock has moved on from the reading written as end_date
TerminateEndsLater ==
    (/\ \E i \in Workers : calc.req[i].op = "terminate" /\ calc.req[i].result = "ok"
                             /\ calc.req[i].stored_end = calc.election.end_date
     /\ now > calc.election.end_date)
        => (has_ended(calc.election, now) /\ ~is_ongoing(calc.election, now))

\* C23: after Election.terminate is applied to an ongoing election the reloaded
\* election has ended and is not ongoing; and at every time an active election
\* with start <= end is not started, ongoing or ended, and only one of them.
C23_TerminateAndStates == [][TerminateEnds]_vars /\ []OneStateAtATime

\* the requests that read the election after the deactivation and were let through
LetThroughAfterDeactivate ==
    {i \in Workers : /\ calc.req[i].later
                     /\ calc.req[i].op \in {"cast", "issue"}
                     /\ calc.req[i].result = "ok"}

\* C24: after Election.deactivate the stored election has is_active = false and
\* is not ongoing, in every later state, whatever add_candidate, add_party or
\* terminate do around it; issue_token and casting for it are refused.
C24_DeactivateIsFinal ==
    calc.deactivated =>
        /\ ~calc.election.is_active
        /\ ~is_ongoing(calc.election, now)
        /\ LetThroughAfterDeactivate = {}

(***************************************************************************)
(* RateLimiter, app/services/rate_limiter.py: the rate_limits collection,  *)
(* one document per key, with a clock that counts seconds.  The limits of  *)
(* the configuration are scaled down.                                      *)
(***************************************************************************)
max_attempts == 2      \* RATE_LIMIT_MAX_ATTEMPTS
window_seconds == 2    \* RATE_LIMIT_WINDOW_SECONDS
lockout_seconds == 3   \* RATE_LIMIT_LOCKOUT_SECONDS
MaxKeys == 2           \* keys (action, ip, identifier) in use
MaxClock == 5          \* last reading of the clock of the rate limiter

RateKeys == 1..MaxKeys

\* find_one that finds nothing
NoRecord == [present |-> FALSE, attempts |-> <<>>, locked_until |-> NoTime]

\* the attempts that count at the reading t: attempt_time > window_start
recent_attempts(attempts, t) ==
    SelectSeq(attempts, LAMBDA a : a > t - window_seconds)

\* mutation of in_lockout: the lock is never in force
never_in_lockout(record, t) == FALSE
\* record.get('locked_until') and now < locked_until
in_lockout(record, t) == record.locked_until # NoTime /\ t < record.locked_until

\* RateLimiter.is_rate_limited: the answer and the collection it leaves
is_rate_limited(rate_limits, key, t) ==
    LET record == rate_limits[key]
    IN  IF ~record.present THEN [limited |-> FALSE, seconds_remaining |-> 0, db |-> rate_limits]
        ELSE IF in_lockout(record, t)
            THEN [limited |-> TRUE, seconds_remaining |-> record.locked_until - t,
                  db |-> rate_limits]
        ELSE IF Len(recent_attempts(record.attempts, t)) >= max_attempts
            THEN [limited |-> TRUE, seconds_remaining |-> lockout_seconds,
                  db |-> [rate_limits EXCEPT ![key].locked_until = t + lockout_seconds]]
        ELSE [limited |-> FALSE, seconds_remaining |-> 0, db |-> rate_limits]

\* $push with $each and $slice: -max_attempts
push_slice(attempts, t) ==
    LET pushed == Append(attempts, t)
    IN  IF Len(pushed) <= max_attempts THEN pushed
        ELSE SubSeq(pushed, Len(pushed) - max_attempts + 1, Len(pushed))

\* mutation of delete_one: the document stays
delete_none(rate_limits, key) == rate_limits
\* delete_one({'key': key})
delete_one(rate_limits, key) == [rate_limits EXCEPT ![key] = NoRecord]

\* RateLimiter.record_attempt
record_attempt(rate_limits, key, success, t) ==
    IF success THEN delete_one(rate_limits, key)
    ELSE [rate_limits EXCEPT ![key] = [present |-> TRUE,
                                       attempts |-> push_slice(@.attempts, t),
                                       locked_until |-> @.locked_until]]

\* RateLimiter.get_attempts_remaining
get_attempts_remaining(rate_limits, key, t) ==
    IF ~rate_limits[key].present THEN max_attempts
    ELSE LET left == max_attempts - Len(recent_attempts(rate_limits[key].attempts, t))
         IN  IF left > 0 THEN left ELSE 0

NoCall == [op |-> "none", key |-> 0, at |-> NoTime, limited |-> FALSE,
           before |-> [k \in RateKeys |-> NoRecord]]

RateInit ==
    /\ CoreInit
    /\ AuditInit
    /\ tampered = NoVoteTamper
    /\ crypto = NoCrypto
    /\ calc = [pc |-> "rate",
               clock |-> 0,
               rate_limits |-> [k \in RateKeys |-> NoRecord],
               locked_at |-> [k \in RateKeys |-> NoTime],  \* ghost: when the lock was set
               last |-> NoCall]                            \* ghost: the last call

RateFrame == UNCHANGED <<coreVars, tampered, auditVars, crypto>>

IsRateLimited(key) ==
    /\ calc.pc = "rate"
    /\ LET r == is_rate_limited(calc.rate_limits, key, calc.clock)
       IN  calc' = [calc EXCEPT
                       !.rate_limits = r.db,
                       !.locked_at[key] = IF r.db # calc.rate_limits THEN calc.clock ELSE @,
                       !.last = [op |-> "is_rate_limited", key |-> key, at |-> calc.clock,
                                 limited |-> r.limited, before |-> calc.rate_limits]]
    /\ RateFrame

RecordAttempt(key, success) ==
    /\ calc.pc = "rate"
    /\ calc' = [calc EXCEPT
                   !.rate_limits = record_attempt(@, key, success, calc.clock),
                   !.locked_at[key] = IF success THEN NoTime ELSE @,
                   !.last = [op |-> IF success THEN "success" ELSE "failure", key |-> key,
                             at |-> calc.clock, limited |-> FALSE,
                             before |-> calc.rate_limits]]
    /\ RateFrame

RateTick ==
    /\ calc.pc = "rate"
    /\ calc.clock < MaxClock
    /\ calc' = [calc EXCEPT !.clock = @ + 1]
    /\ RateFrame

RateNext ==
    \/ \E key \in RateKeys : IsRateLimited(key)
    \/ \E key \in RateKeys, success \in BOOLEAN : RecordAttempt(key, success)
    \/ RateTick

SpecRate == RateInit /\ [][RateNext]_vars

\* the lock of the key, set and not removed since, has not run out at reading t
LockInForce(key, t) ==
    calc.locked_at[key] # NoTime /\ t < calc.locked_at[key] + lockout_seconds

C26_ResetOnSuccess ==
    calc.last.op = "success" =>
        /\ ~is_rate_limited(calc.rate_limits, calc.last.key, calc.clock).limited
        /\ get_attempts_remaining(calc.rate_limits, calc.last.key, calc.clock) = max_attempts
        /\ \A k \in RateKeys \ {calc.last.key} : calc.rate_limits[k] = calc.last.before[k]

\* the success came while the key was locked out, another key holding failures
C26_Witness ==
    /\ calc.last.op = "success"
    /\ calc.clock = calc.last.at
    /\ is_rate_limited(calc.last.before, calc.last.key, calc.last.at).limited
    /\ get_attempts_remaining(calc.last.before, calc.last.key, calc.last.at) = 0
    /\ \E k \in RateKeys \ {calc.last.key} : calc.rate_limits[k].attempts # <<>>

(***************************************************************************)
(* Properties of the audit chain (specification SpecAudit), continued.     *)
(***************************************************************************)
\* every append has returned, nothing was changed behind the code, and the
\* stored timestamps differ, so that the order of the entries is defined
AppendsCompleted ==
    /\ \A i \in Workers : aw[i].pc = "idle"
    /\ aghost.tamper.k = 0
    /\ \A j, k \in DOMAIN audit_logs :
           j # k => normalized_ts(audit_logs[j].timestamp) # normalized_ts(audit_logs[k].timestamp)

SingleChain ==
    /\ \A j, k \in DOMAIN audit_logs :
           j # k => audit_logs[j].previous_hash # audit_logs[k].previous_hash
    /\ (chain.called /\ chain.stored = Len(audit_logs)) => chain.result.valid

\* C27: when AuditLog.save calls interleave, after all of them have completed the
\* stored entries form a single chain: no two entries share a previous_hash and
\* verify_chain() answers valid.
C27_AppendsLinearisable == AppendsCompleted => SingleChain

\* the same for appends made one after another
C27_SequentialAppends == (AppendsCompleted /\ ~aghost.overlap) => SingleChain

(***************************************************************************)
(* Properties of parallel requests (specification Spec), the cast.         *)
(***************************************************************************)
\* the casts that stored their FPTP ballot and were then refused the PR slot
PartialCasts ==
    {i \in Workers : w[i].op = "cast" /\ w[i].pc = "done" /\ w[i].result = "PR ballot failed"}

FptpKept(i) ==
    \E k \in DOMAIN votes : /\ votes[k].ballot_type = "fptp"
                            /\ votes[k].token_id = w[i].token_id
                            /\ votes[k].receipt_id = w[i].receipt.receipt_id

\* C28: when cast_dual_ballot_with_token has stored the FPTP ballot and the PR slot
\* cannot then be consumed, the caller receives the partial-cast error, the stored
\* FPTP ballot is kept and the elector is recorded as having voted in the election.
C28_PartialCastRule ==
    \A i \in PartialCasts :
        /\ FptpKept(i)
        /\ ElectionId \in Range(voters[w[i].voter].elections_voted)

\* the half of C28 that the code keeps: the error and the stored FPTP ballot
C28_FptpKept == \A i \in PartialCasts : FptpKept(i)

\* the issue_token requests of elector v that returned a token id
IssuedTo(v) == {s \in succeeded : s.op = "issue" /\ s.voter = v}

\* C29: when issue_token requests of one elector for the election interleave, at
\* most one of them creates a token and returns a token id.
C29_OneTokenPerElector == \A v \in DOMAIN voters : Cardinality(IssuedTo(v)) <= 1

\* the ballot records stored with token t and kind k
RecordsOfToken(t, k) ==
    {n \in DOMAIN votes : votes[n].token_id = t /\ votes[n].ballot_type = k}

\* C30: for every token t and ballot kind k the votes collection holds at most one
\* record with token_id = t and ballot_type = k, and holds one only if k is in
\* t.ballots_used, also when several casts present the same token at once.
C30_OneRecordPerSlot ==
    \A t \in DOMAIN voting_tokens, k \in BallotTypes :
        /\ Cardinality(RecordsOfToken(t, k)) <= 1
        /\ RecordsOfToken(t, k) # {} => k \in Range(voting_tokens[t].ballots_used)

\* two casts presented the same token at once; one stored both records, the other
\* was refused
C30_Witness ==
    \E i, j \in Workers :
        /\ i # j
        /\ w[i].op = "cast" /\ w[j].op = "cast"
        /\ w[i].token_id = w[j].token_id
        /\ w[i].result = "ok" /\ w[j].result = "FPTP ballot failed"
        /\ ~w[j].later
        /\ RecordsOfToken(w[i].token_id, "fptp") # {}
        /\ RecordsOfToken(w[i].token_id, "pr") # {}

(***************************************************************************)
(* The cast when a store step raises.  Vote.cast_fptp_vote and             *)
(* Vote.cast_pr_vote encrypt the choice and insert the record; either may  *)
(* raise (the driver's insert_one on a lost connection or a refused write, *)
(* the cipher on a key it cannot import), and the except clause of         *)
(* cast_dual_ballot_with_token turns the exception into a failed return.   *)
(* Requests are handled one at a time and every consume is made by a cast. *)
(***************************************************************************)
\* vote_service.py lines 202-203: the exception of a store step ends the cast
CastStoreRaises(i) ==
    /\ w[i].pc \in {"c_store_fptp", "c_store_pr"}
    /\ w' = [w EXCEPT ![i] = Finish(@, "Failed to cast vote", w[i].ballot_type)]
    /\ UNCHANGED <<nonCore, succeeded, now, voters, voting_tokens, votes, started, consumed, cast_by>>

FaultNext ==
    \/ \E i \in Sequential, v \in DOMAIN voters : started < MaxSeqRequests /\ StartIssue(i, v)
    \/ \E i \in Sequential : IssueCheck(i)
    \/ \E i \in Sequential : IssueCreate(i)
    \/ \E i \in Sequential : IssueMark(i)
    \/ \E i \in Sequential, v \in DOMAIN voters, t \in PresentableTokens,
          c \in CandidateIds, p \in PartyIds : started < MaxSeqRequests /\ StartCast(i, v, t, c, p)
    \/ \E i \in Sequential : CastValidate(i)
    \/ \E i \in Sequential : UseFind(i)
    \/ \E i \in Sequential : UseMark(i)
    \/ \E i \in Sequential : CastStoreFptp(i)
    \/ \E i \in Sequential : CastStorePr(i)
    \/ \E i \in Sequential : CastStoreRaises(i)
    \/ \E i \in Sequential : MarkVoted(i)
    \/ \E i \in Sequential : Return(i)

SpecFault == Init /\ [][FaultNext]_vars

\* the slots of stored tokens that are used and have no ballot record
LostSlots ==
    {p \in (DOMAIN voting_tokens) \X BallotTypes :
        /\ p[2] \in Range(voting_tokens[p[1]].ballots_used)
        /\ ~\E k \in DOMAIN votes : votes[k].token_id = p[1] /\ votes[k].ballot_type = p[2]}

\* C31: no cast ends with a slot of a token used and no ballot record of that kind
\* stored with the token, also when the encryption or the insert that follows the
\* consume fails.
C31_NoSlotLost ==
    \A i \in Workers : w[i].pc = "done" => LostSlots = {}

\* a cast that returned success has lost no slot of its token
C31_StoredOnSuccess ==
    \A i \in Workers :
        (w[i].op = "cast" /\ w[i].pc = "done" /\ w[i].result = "ok") =>
            \A s \in LostSlots : s[1] # w[i].token_id

(***************************************************************************)
(* Properties of parallel requests (specification Spec), the token.        *)
(***************************************************************************)
\* one step of the store on token t: nothing is taken from ballots_used, a token
\* that is fully used stays so and is not consumed again
TokenMovesForward(t) ==
    /\ t \in DOMAIN voting_tokens'
    /\ Range(voting_tokens[t].ballots_used) \subseteq Range(voting_tokens'[t].ballots_used)
    /\ Len(voting_tokens[t].ballots_used) <= Len(voting_tokens'[t].ballots_used)
    /\ voting_tokens[t].is_fully_used =>
          /\ voting_tokens'[t] = voting_tokens[t]
          /\ \A k \in BallotTypes : consumed'[<<t, k>>] = consumed[<<t, k>>]

\* C32: along every execution ballots_used of a token never loses an element,
\* is_fully_used never changes from true to false, and a token that is fully used
\* accepts no further consume of any kind.
C32_TokensMoveForward == [][\A t \in DOMAIN voting_tokens : TokenMovesForward(t)]_vars

\* a consume was asked of a token that is fully used, and was refused
C32_Witness ==
    \E i \in Workers :
        /\ w[i].op = "use" /\ w[i].pc = "done"
        /\ w[i].result = "This voting token has already been fully used"
        /\ voting_tokens[w[i].token_id].is_fully_used
        /\ Range(voting_tokens[w[i].token_id].ballots_used) = BallotTypes

\* the use_token_for_ballot calls that returned a failure
FailedUses == {i \in Workers : w[i].op = "use" /\ w[i].pc = "done" /\ w[i].result # "ok"}

\* C33: use_token_for_ballot returns the same failure for a token id that does not
\* exist as for an existing token whose slot of that kind is already used.
C33_ConsumeDoesNotLeak ==
    \A i, j \in FailedUses :
        (/\ w[i].token_id \notin DOMAIN voting_tokens
         /\ w[j].token_id \in DOMAIN voting_tokens
         /\ w[j].ballot_type \in Range(voting_tokens[w[j].token_id].ballots_used))
        => w[i].result = w[j].result

\* the failure of a token id that does not exist is one outcome, whatever the kind
C33_UnknownTokenOutcome ==
    \A i \in FailedUses :
        w[i].token_id \notin DOMAIN voting_tokens => w[i].result = "Invalid voting token"

(***************************************************************************)
(* The cast between its election check and its store steps, against        *)
(* terminate_election and decrypt_and_get_results.  The cast reads the     *)
(* election once (vote_service.py line 108), tests is_ongoing on that copy *)
(* (113-117) and then consumes and stores (157-189); the token steps in    *)
(* between read no election and are left out here.  A ballot record        *)
(* carries, as ghosts, the clock and the stored end_date when it was       *)
(* inserted and whether a tally had succeeded by then.                     *)
(***************************************************************************)
LateInit ==
    /\ CoreInit
    /\ AuditInit
    /\ tampered = NoVoteTamper
    /\ crypto = NoCrypto
    /\ calc = [pc |-> "gates",
               election |-> TheElection,
               req |-> [i \in Workers |-> IdleG],
               started |-> 0,
               ballots |-> <<>>,          \* the votes collection of the election
               counted |-> 0,             \* records the last successful tally read
               tallied |-> FALSE,         \* ghost: a tally has succeeded
               deactivated |-> FALSE]

\* cast_dual_ballot_with_token, lines 113-117, then on to the store steps
CastIsOngoing(i) ==
    /\ calc.req[i].op = "cast" /\ calc.req[i].pc = "test"
    /\ LET r == ElectionCheck(calc.req[i].election, now)
       IN  calc' = [calc EXCEPT !.req[i] =
                       IF r = "ok" THEN [@ EXCEPT !.pc = "store_fptp", !.at = now]
                       ELSE Tested(@, r)]
    /\ GateFrame

\* the insert of Vote.cast_fptp_vote (lines 162-172) and of Vote.cast_pr_vote
\* (180-189), then the return of the cast
CastInsert(i, ballot_type) ==
    /\ calc.req[i].op = "cast" /\ calc.req[i].pc = IF ballot_type = "fptp" THEN "store_fptp"
                                                                          ELSE "store_pr"
    /\ calc' = [calc EXCEPT
                   !.ballots = Append(@, [ballot_type |-> ballot_type,
                                          checked_at |-> calc.req[i].at,
                                          copy_end |-> calc.req[i].election.end_date,
                                          at |-> now,
                                          stored_end |-> calc.election.end_date,
                                          after_tally |-> calc.tallied]),
                   !.req[i] = IF ballot_type = "fptp" THEN [@ EXCEPT !.pc = "store_pr"]
                              ELSE [@ EXCEPT !.pc = "done", !.result = "ok"]]
    /\ GateFrame

\* decrypt_and_get_results, lines 431-440: past the has_ended test the records of
\* the election are read
TallyFindVotes(i) ==
    /\ calc.req[i].op = "tally" /\ calc.req[i].pc = "test"
    /\ IF ~has_ended(calc.req[i].election, now)
       THEN calc' = [calc EXCEPT
                        !.req[i] = Tested(@, "Results are only available after the election has ended")]
       ELSE calc' = [calc EXCEPT !.req[i] = Tested(@, "ok"),
                                 !.counted = Len(calc.ballots),
                                 !.tallied = TRUE]
    /\ GateFrame

LateNext ==
    \/ \E i \in Workers, op \in {"cast", "tally", "terminate"} : FindElection(i, op)
    \/ \E i \in Workers : CastIsOngoing(i)
    \/ \E i \in Workers, b \in BallotTypes : CastInsert(i, b)
    \/ \E i \in Workers : TallyFindVotes(i)
    \/ \E i \in Workers : TerminateCheck(i)
    \/ \E i \in Workers : Terminate(i)
    \/ \E i \in Workers : GateReturn(i)
    \/ Tick

SpecLate == LateInit /\ [][LateNext]_vars

\* C34: no ballot record is added to the election after it has ended or after a
\* decrypt_and_get_results for it has succeeded, also when the election is
\* terminated, and tallied, between the is_ongoing check of a cast and its stores.
C34_NoBallotAfterEnd ==
    \A k \in DOMAIN calc.ballots :
        /\ calc.ballots[k].at <= calc.ballots[k].stored_end
        /\ ~calc.ballots[k].after_tally

\* every stored ballot is of a cast whose copy of the election was ongoing when
\* the cast tested it
C34_PassedTheCheck ==
    \A k \in DOMAIN calc.ballots :
        /\ calc.ballots[k].checked_at <= calc.ballots[k].copy_end
        /\ calc.ballots[k].checked_at <= calc.ballots[k].at

(***************************************************************************)
(* Properties of the sequential services (specification SpecSeq), the      *)
(* effect of verify_receipt on the store.                                  *)
(***************************************************************************)
\* the step in which a verify_receipt call logs the verification and returns, and
\* the step in which one returns a failure
VerifySucceeds(i) == w[i].op = "verify" /\ w[i].pc = "v_log" /\ w'[i].pc = "done"
VerifyFails(i) == w[i].op = "verify" /\ w[i].pc = "v_find" /\ w'[i].pc = "done"

\* record k is counted once more and has one more entry of history
CountedOnce(k) ==
    /\ votes'[k].verification_count = votes[k].verification_count + 1
    /\ Len(votes'[k].verification_history) = Len(votes[k].verification_history) + 1
    /\ SubSeq(votes'[k].verification_history, 1, Len(votes[k].verification_history))
          = votes[k].verification_history

VerificationFields == {"verification_count", "verification_history"}

\* every field of record k outside the set fields is as it was
KeptOutside(k, fields) == \A f \in (DOMAIN votes[k]) \ fields : votes'[k][f] = votes[k][f]

\* the effect of one verify_receipt step on the store, the fields a successful one
\* may write being given
VerifyEffect(fields) ==
    \A i \in Workers :
        /\ VerifySucceeds(i) =>
              /\ DOMAIN votes' = DOMAIN votes
              /\ \A k \in DOMAIN votes :
                    IF votes[k].receipt_id = w[i].receipt.receipt_id
                    THEN CountedOnce(k) /\ KeptOutside(k, fields)
                    ELSE votes'[k] = votes[k]
        /\ VerifyFails(i) => votes' = votes

\* C35: each successful verify_receipt(receipt_id) increases verification_count by
\* exactly one and appends exactly one entry to verification_history on every
\* ballot record with that receipt_id and changes no other field of any record; a
\* verify_receipt that fails changes nothing in the store.
C35_VerifyEffectOriginal == [][VerifyEffect(VerificationFields)]_vars

\* C35, amended: the same, except that a successful verify_receipt also sets
\* last_verified_at of the records with that receipt_id to the time of the
\* verification.
C35_VerifyEffect ==
    [][/\ VerifyEffect(VerificationFields \cup {"last_verified_at"})
       /\ \A i \in Workers : VerifySucceeds(i) =>
             \A k \in DOMAIN votes :
                 votes[k].receipt_id = w[i].receipt.receipt_id =>
                     votes'[k].last_verified_at = now]_vars

\* a receipt was verified with success while a record with another receipt was in
\* the store: the records of the receipt are counted once, the other is untouched
C35_Witness ==
    \E i \in Workers :
        /\ w[i].op = "verify" /\ w[i].pc = "done"
        /\ w[i].result = "Your votes were successfully recorded."
        /\ \E k \in DOMAIN votes : /\ votes[k].receipt_id = w[i].receipt.receipt_id
                                   /\ votes[k].verification_count = 1
                                   /\ Len(votes[k].verification_history) = 1
        /\ \E k \in DOMAIN votes : /\ votes[k].receipt_id # w[i].receipt.receipt_id
                                   /\ votes[k].verification_count = 0
                                   /\ votes[k].last_verified_at = NoTime

(***************************************************************************)
(* The results request: the route election_results (app/routes/admin.py)   *)
(* and VoteService.decrypt_and_get_results, on a store that holds the      *)
(* ballot records of an election that has ended.  The store is read at the *)
(* find of the election (in the route and again in the service) and at the *)
(* find of the records; between these a request may be abandoned, and two  *)
(* requests interleave.  A dict built by the tally is the sequence of its  *)
(* items in insertion order; the rounding of the float divisions of the    *)
(* seat allocation is a fixed function of the operands (calc.r).           *)
(***************************************************************************)
\* the election document: its candidates and parties in the order of the
\* document, its seats, and that it carries a key bundle
TallyElection ==
    [election_id |-> ElectionId,
     candidates |-> <<[candidate_id |-> <<"CND", 1>>, constituency |-> "Kathmandu"],
                      [candidate_id |-> <<"CND", 2>>, constituency |-> "Kathmandu"]>>,
     parties |-> <<[party_id |-> <<"PTY", 1>>], [party_id |-> <<"PTY", 2>>]>>,
     total_pr_seats |-> 1,
     start_date |-> 0,
     end_date |-> MaxNow - 1,
     is_active |-> TRUE,
     encrypted_key_bundle |-> TRUE]

\* the vote_data of the ballots of this election
Plaintexts ==
    {[ballot_type |-> "fptp", candidate_id |-> c.candidate_id, constituency |-> c.constituency] :
        c \in Range(TallyElection.candidates)}
    \cup {[ballot_type |-> "pr", party_id |-> p.party_id] : p \in Range(TallyElection.parties)}

\* a stored record: as the cast stored it, with its ciphertext changed behind the
\* code, or holding no ciphertext
StoredKinds ==
    [kind : {"sound"}, data : Plaintexts]
    \cup [kind : {"tampered", "none"}, data : {[ballot_type |-> "pr", party_id |-> <<"PTY", 1>>]}]

StoredVote(x, n) ==
    LET doc == VoteDoc(ElectionId, x.data.ballot_type, choice_of(x.data), "Kathmandu",
                       TokenId(n), NoReceipt, 0, n)
    IN  IF x.kind = "sound" THEN doc
        ELSE IF x.kind = "tampered" THEN [doc EXCEPT !.encrypted_vote = TamperedBlob(x.data)]
        ELSE [doc EXCEPT !.encrypted_vote = NoBlob]

\* the share lists of a POST: how many shares parsed, and whether they are shares
\* of the split of this election's key
ShareLists == [len : {2, 3}, good : BOOLEAN]
NoShares == [len |-> 0, good |-> FALSE]

\* ElectionCrypto.reconstruct_private_keys: the AES key put together from shares
\* of another split does not open the bundle (decrypt_and_verify raises)
reconstruct_private_keys(shares, bundle) ==
    IF shares.good /\ bundle THEN Ok(<<RsaPrivateKey(1), KyberPrivateKey(1)>>) ELSE Failed

\* lines 451-456: the decrypted ballots, in the order of the records; a record
\* without ciphertext is skipped, an exception of decrypt_vote leaves the loop
RECURSIVE decrypted_votes(_, _, _, _)
decrypted_votes(encrypted_votes, k, rsa_private_key, kyber_private_key) ==
    IF k > Len(encrypted_votes) THEN Ok(<<>>)
    ELSE IF encrypted_votes[k].encrypted_vote.algorithm = "none"
        THEN decrypted_votes(encrypted_votes, k + 1, rsa_private_key, kyber_private_key)
    ELSE LET decrypted == decrypt_vote(encrypted_votes[k].encrypted_vote,
                                       rsa_private_key, kyber_private_key)
             rest == decrypted_votes(encrypted_votes, k + 1, rsa_private_key, kyber_private_key)
         IN  IF ~decrypted.ok \/ ~rest.ok THEN Failed
             ELSE Ok(<<decrypted.value>> \o rest.value)

\* lines 461-468: fptp_counts, constituency -> candidate_id -> count
fptp_counts_of(decrypted) ==
    LET fptp == {k \in DOMAIN decrypted : decrypted[k].ballot_type = "fptp"}
    IN  [constituency \in {decrypted[k].constituency : k \in fptp} |->
            [id \in {decrypted[k].candidate_id :
                        k \in {j \in fptp : decrypted[j].constituency = constituency}} |->
                Cardinality({k \in fptp : /\ decrypted[k].constituency = constituency
                                          /\ decrypted[k].candidate_id = id})]]

\* lines 470-475: pr_counts, a dict whose keys are in the order of first occurrence
RECURSIVE pr_counts_of(_, _, _)
pr_counts_of(decrypted, k, pr_counts) ==
    IF k > Len(decrypted) THEN pr_counts
    ELSE IF decrypted[k].ballot_type # "pr" THEN pr_counts_of(decrypted, k + 1, pr_counts)
    ELSE LET party_id == decrypted[k].party_id
             known == {i \in DOMAIN pr_counts : pr_counts[i][1] = party_id}
         IN  pr_counts_of(decrypted, k + 1,
                 IF known = {} THEN Append(pr_counts, <<party_id, 1>>)
                 ELSE [i \in DOMAIN pr_counts |->
                          IF i \in known THEN <<party_id, pr_counts[i][2] + 1>>
                          ELSE pr_counts[i]])

\* dict.get(key, default) of a dict given as the sequence of its items
items_get(d, key, default) ==
    IF \E i \in DOMAIN d : d[i][1] = key
    THEN d[CHOOSE i \in DOMAIN d : d[i][1] = key][2]
    ELSE default

\* parties_results.sort(key=lambda x: (x['seats'], x['votes']), reverse=True): the
\* sort is stable
sort_by_seats_reverse(parties_results) ==
    LET n == Len(parties_results)
        above(j, i) ==
            \/ parties_results[j].seats > parties_results[i].seats
            \/ /\ parties_results[j].seats = parties_results[i].seats
               /\ parties_results[j].votes > parties_results[i].votes
            \/ /\ parties_results[j].seats = parties_results[i].seats
               /\ parties_results[j].votes = parties_results[i].votes
               /\ j < i
        position(i) == Cardinality({j \in 1..n : above(j, i)})
    IN  [k \in 1..n |-> parties_results[CHOOSE i \in 1..n : position(i) = k - 1]]

\* _build_pr_results
build_pr_results(election, vote_counts, r) ==
    LET seat_allocation == allocate_pr_seats(vote_counts, election.total_pr_seats, r)
    IN  [parties |->
            sort_by_seats_reverse(
                [i \in DOMAIN election.parties |->
                    [party_id |-> election.parties[i].party_id,
                     votes |-> items_get(vote_counts, election.parties[i].party_id, 0),
                     seats |-> items_get(seat_allocation, election.parties[i].party_id, 0)]]),
         total_votes |-> sum_values(vote_counts),
         total_seats |-> election.total_pr_seats]

NoResults == [fptp |-> <<>>, pr |-> <<>>]

\* decrypt_and_get_results from the find of the records on (lines 443-490)
decrypt_and_build(election, encrypted_votes, keys, r) ==
    LET decrypted == decrypted_votes(encrypted_votes, 1, keys[1], keys[2])
    IN  IF ~decrypted.ok
        THEN [success |-> FALSE, message |-> "Failed to decrypt results", results |-> NoResults]
        ELSE [success |-> TRUE, message |-> "Results decrypted successfully",
              results |->
                 [fptp |-> build_fptp_results(election.candidates,
                                              fptp_counts_of(decrypted.value)),
                  pr |-> build_pr_results(election,
                                          pr_counts_of(decrypted.value, 1, <<>>), r)]]

IdleT ==
    [pc |-> "idle", shares |-> NoShares, keys |-> <<NoKey, NoKey>>,
     encrypted_votes |-> <<>>,      \* the records the request read
     success |-> FALSE, message |-> "none", results |-> NoResults]

TallyInit ==
    /\ now = MaxNow
    /\ voters = [v \in VoterIds |-> VoterDoc(v, 0)]
    /\ voting_tokens = <<>>
    /\ \E n \in 0..MaxBallots :
           votes \in {[k \in 1..n |-> StoredVote(f[k], k)] : f \in [1..n -> StoredKinds]}
    /\ w = [i \in Workers |-> IdleW]
    /\ started = 0
    /\ consumed = <<>>
    /\ cast_by = <<>>
    /\ succeeded = {}
    /\ AuditInit
    /\ tampered = NoVoteTamper
    /\ crypto = NoCrypto
    /\ calc \in {[pc |-> "results",
                  election |-> TallyElection,        \* the document of the store
                  r |-> r,
                  req |-> [i \in Workers |-> IdleT],
                  logged |-> <<>>] :                 \* the audit entries appended
                    r \in {q \in [0..MaxBallots -> {-1, 0, 1}] : q[0] = 0}}

TallyFrame == UNCHANGED <<coreVars, tampered, auditVars, crypto>>

Refused(rec, message) == [rec EXCEPT !.pc = "done", !.success = FALSE, !.message = message]

\* election_results, lines 232-264: the election is read and tested, the shares
\* of the form are parsed and counted
ElectionResults(i, shares) ==
    /\ calc.req[i].pc = "idle"
    /\ calc' = [calc EXCEPT !.req[i] =
                   IF ~has_ended(calc.election, now)
                       THEN Refused(@, "Results are only available after the election has ended")
                   ELSE IF shares.len < 3
                       THEN Refused([@ EXCEPT !.shares = shares],
                                    "At least 3 valid shares are required")
                   ELSE [@ EXCEPT !.pc = "service", !.shares = shares]]
    /\ TallyFrame

\* decrypt_and_get_results, lines 427-440: the election is read again and tested,
\* the private keys are put together
ReconstructKeys(i) ==
    /\ calc.req[i].pc = "service"
    /\ LET keys == reconstruct_private_keys(calc.req[i].shares,
                                            calc.election.encrypted_key_bundle)
       IN  calc' = [calc EXCEPT !.req[i] =
                       IF ~has_ended(calc.election, now)
                           THEN Refused(@, "Results are only available after the election has ended")
                       ELSE IF ~calc.election.encrypted_key_bundle
                           THEN Refused(@, "Election encryption data not found")
                       ELSE IF ~keys.ok THEN Refused(@, "Failed to decrypt results")
                       ELSE [@ EXCEPT !.pc = "votes", !.keys = keys.value]]
    /\ TallyFrame

\* a find of the records that also writes the count into each record
FindVotesAndMark(i) ==
    /\ calc.req[i].pc = "votes"
    /\ votes' = [k \in DOMAIN votes |-> [votes[k] EXCEPT !.verification_count = @ + 1]]
    /\ calc' = [calc EXCEPT !.req[i] = [@ EXCEPT !.pc = "log", !.encrypted_votes = votes]]
    /\ UNCHANGED <<now, voters, voting_tokens, w, started, consumed, cast_by, succeeded,
                   tampered, auditVars, crypto>>

\* lines 443-490: the records of the election are read, decrypted and counted and
\* the results built; then the return to the route (lines 267-271)
FindVotes(i) ==
    /\ calc.req[i].pc = "votes"
    /\ LET out == decrypt_and_build(calc.election, votes, calc.req[i].keys, calc.r)
       IN  calc' = [calc EXCEPT !.req[i] =
                       [@ EXCEPT !.pc = IF out.success THEN "log" ELSE "done",
                                 !.encrypted_votes = votes,
                                 !.success = out.success,
                                 !.message = out.message,
                                 !.results = out.results]]
    /\ TallyFrame

\* election_results, lines 273-278: the successful decryption is logged
LogViewResults(i) ==
    /\ calc.req[i].pc = "log"
    /\ calc' = [calc EXCEPT
                   !.logged = Append(@, [category |-> "admin",
                                         message |-> "Admin action: view_results",
                                         request |-> i]),
                   !.req[i] = [@ EXCEPT !.pc = "done"]]
    /\ TallyFrame

\* the request is cancelled between two of its steps
Abandon(i) ==
    /\ calc.req[i].pc \in {"service", "votes", "log"}
    /\ calc' = [calc EXCEPT !.req[i] = [@ EXCEPT !.pc = "abandoned"]]
    /\ TallyFrame

TallyNext ==
    \/ \E i \in Workers, shares \in ShareLists : ElectionResults(i, shares)
    \/ \E i \in Workers : ReconstructKeys(i)
    \/ \E i \in Workers : FindVotes(i)
    \/ \E i \in Workers : LogViewResults(i)
    \/ \E i \in Workers : Abandon(i)

SpecTally == TallyInit /\ [][TallyNext]_vars

\* the four collections are as they were
StoreUnchanged ==
    /\ UNCHANGED <<votes, voting_tokens, voters>>
    /\ calc'.election = calc.election

\* the requests whose decrypt_and_get_results returned results
Succeeded == {i \in Workers : calc.req[i].pc \in {"log", "done"} /\ calc.req[i].success}

\* two tallies that read the same records returned the same results
TalliesAgree ==
    \A i, j \in Succeeded :
        calc.req[i].encrypted_votes = calc.req[j].encrypted_votes =>
            calc.req[i].results = calc.req[j].results

CryptoFailures ==
    {i \in Workers :
        /\ calc.req[i].pc = "done" /\ ~calc.req[i].success
        /\ calc.req[i].message \in {"At least 3 valid shares are required",
                                    "Failed to decrypt results"}}

EntriesOf(i) == {k \in DOMAIN calc.logged : calc.logged[k].request = i}

\* C37: every cryptographic failure of a tally request (invalid or insufficient
\* shares, key mismatch, tampered ciphertext) aborts the request and appends an
\* audit entry with category security for it.
C37_CryptoFailureLogged ==
    \A i \in CryptoFailures :
        /\ calc.req[i].results = NoResults
        /\ \E k \in EntriesOf(i) : calc.logged[k].category = "security"

\* the half of C37 that the code keeps: the failure ends the request without
\* results; and no audit entry at all is appended for it
C37_CryptoFailureAborts ==
    \A i \in CryptoFailures : calc.req[i].results = NoResults /\ EntriesOf(i) = {}

(***************************************************************************)
(* Properties of the life of an election (specification SpecLife), its     *)
(* candidates, parties and times.                                          *)
(***************************************************************************)
\* C38: once an election has been created no operation adds, removes or changes
\* a candidate or a party of it; add_candidate_to_election and
\* add_party_to_election leave the election unchanged.
C38_CandidatesImmutable ==
    /\ calc.election.candidates = TheElection.candidates
    /\ calc.election.parties = TheElection.parties

\* what the code keeps: candidates and parties are only ever added, by a request
\* whose copy of the election had not started when the request began
C38_OnlyAdded ==
    /\ TheElection.candidates \subseteq calc.election.candidates
    /\ TheElection.parties \subseteq calc.election.parties
    /\ \A i \in Workers :
          (calc.req[i].op \in {"add_candidate", "add_party"} /\ calc.req[i].pc = "save")
              => ~has_started(calc.req[i].election, 0)

\* one step of the store on the times of the election: start_date is as it was,
\* and end_date changes only by the update of a terminate, applied to an election
\* that has started and not ended, to the clock
TimesOnlyByTerminate ==
    /\ calc'.election.start_date = calc.election.start_date
    /\ calc'.election.end_date # calc.election.end_date =>
          /\ \E i \in Workers : Terminate(i)
          /\ has_started(calc.election, now) /\ ~has_ended(calc.election, now)
          /\ calc'.election.end_date = now

\* the stored end_date is the one a successful terminate wrote and becomes later
EndMovesLater ==
    /\ \E i \in Workers : /\ calc.req[i].op = "terminate" /\ calc.req[i].result = "ok"
                          /\ calc.req[i].stored_end = calc.election.end_date
    /\ calc'.election.end_date > calc.election.end_date

\* C39: start and end times of an election change only through a successful
\* terminate, accepted only for an election that has started and not ended and
\* setting end to the clock; a rejected terminate changes nothing; and after a
\* successful terminate the stored end time never becomes later again, whatever
\* add_candidate, add_party and deactivate do around it.
C39_TimesOnlyByTerminate ==
    [][/\ TimesOnlyByTerminate
       /\ ~EndMovesLater
       /\ \A i \in Workers : TerminateCheck(i) => calc'.election = calc.election]_vars

\* the part of C39 that the code keeps: start_date never changes, a terminate
\* that is refused changes nothing, and Election.terminate writes the clock
C39_RejectedTerminateChangesNothing ==
    [][/\ calc'.election.start_date = calc.election.start_date
       /\ \A i \in Workers : TerminateCheck(i) => calc'.election = calc.election
       /\ \A i \in Workers : Terminate(i) => calc'.election.end_date = now]_vars

(***************************************************************************)
(* reconstruct_secret on any list of shares of one split: shares may be    *)
(* missing, repeated and in any order.                                     *)
(***************************************************************************)
MaxGiven == 4   \* shares handed to reconstruct_secret

\* the secrets split here: the least, the greatest of the field, one outside it
ListSecrets == {<<0>>, <<1>>, <<PRIME - 1>>, <<PRIME>>}

ShareListInit ==
    /\ CoreInit
    /\ AuditInit
    /\ tampered = NoVoteTamper
    /\ crypto = NoCrypto
    /\ calc \in {[pc |-> "secret", secret_bytes |-> s, threshold |-> tn[1],
                  total_shares |-> tn[2], shares |-> <<>>, given |-> <<>>,
                  out |-> [ok |-> FALSE, value |-> <<>>]] :
                    s \in ListSecrets, tn \in Sharings}

\* reconstruct_secret called with a list of shares of the split
ReconstructFromList ==
    /\ calc.pc = "split"
    /\ \E l \in 0..MaxGiven : \E f \in [1..l -> 1..calc.total_shares] :
           LET given == [k \in 1..l |-> calc.shares[f[k]]]
           IN  calc' = [calc EXCEPT
                           !.pc = "reconstructed",
                           !.given = given,
                           !.out = reconstruct_secret(given, Len(calc.secret_bytes),
                                                      calc.threshold)]
    /\ UNCHANGED <<coreVars, tampered, auditVars, crypto>>

ShareListNext == SplitRefuse \/ Split \/ ReconstructFromList

SpecShareList == ShareListInit /\ [][ShareListNext]_vars

\* the indices of the shares of a list
Indices(shares) == {shares[k][1] : k \in DOMAIN shares}

\* C40: reconstruct_secret removes shares with a repeated index before taking the
\* first t: given a list with at least t distinct indices of a split of s,
\* possibly with some share repeated, it returns s; given fewer than t shares it
\* fails without returning a value.
C40_RepeatedSharesRemoved ==
    calc.pc = "reconstructed" =>
        /\ Cardinality(Indices(calc.given)) >= calc.threshold =>
               calc.out = [ok |-> TRUE, value |-> calc.secret_bytes]
        /\ Len(calc.given) < calc.threshold => ~calc.out.ok

\* what the code does: it returns s when the first t shares of the list have
\* different indices, and fails on fewer than t shares
C40_FirstSharesDistinct ==
    calc.pc = "reconstructed" =>
        /\ (/\ Len(calc.given) >= calc.threshold
            /\ Cardinality(Indices(SubSeq(calc.given, 1, calc.threshold))) = calc.threshold)
               => calc.out = [ok |-> TRUE, value |-> calc.secret_bytes]
        /\ Len(calc.given) < calc.threshold => ~calc.out.ok

====
